---------------------------- MODULE Spec2Model ----------------------------
(***************************************************************************)
(* The triadic harmonic state engine of the two Ardy chatbots:             *)
(*   variant "A": QuantumHarmonicConsciousness / TrueArdyBrain             *)
(*                (ardy_quantum_harmonic.py), Rule A (damped blending);    *)
(*   variant "B": AdvancedHarmonicConsciousness / ArdyTrueAI               *)
(*                (ardy_voice_android.py), Rule B (Euler step with noise). *)
(*                                                                         *)
(* Numbers.  Python floats are modelled in decimal fixed point:            *)
(*   amplitudes, energies, noise, resonance (B), coherence : 1/AmpScale    *)
(*   phases                                                : 1/AmpScale rad*)
(*   personality scalars                                   : 1/PersScale   *)
(* A float multiplication by a decimal literal is Times(x, num, den), the  *)
(* product rounded down to the unit.  PersScale is chosen so that the      *)
(* personality nudges (0.001 * amplitude, 0.0005 * phase_variance) are     *)
(* whole numbers of units.  SpecFloat alone runs Rule A's amplitude       *)
(* statements in binary64 itself.                                          *)
(*                                                                         *)
(* Specifications.                                                         *)
(*   Spec, SpecLong : the engine under any sequence of advance calls       *)
(*   SpecEmotion    : variant A's _update_emotion on a grid of states      *)
(*   SpecFloat      : Rule A's amplitude statements in binary64            *)
(*   SpecThink      : the brain under think calls, one after the other     *)
(*   SpecThreads    : the GUI handlers and the threads they start          *)
(*   SpecLoad       : construction from any content of the memory file     *)
(*   SpecDisk       : think calls while the memory file cannot be written  *)
(*   SpecRead       : the read-only methods between advances and saves     *)
(*   SpecEnergy     : every call site of an advance in the shells          *)
(*   SpecPatterns   : think calls after the record of a long session       *)
(*   SpecMonitor    : NetworkMonitor of network_monitor_android.py         *)
(*   SpecGitHub     : GitHubAPI of github_uploader_android.py              *)
(*   SpecCount      : think calls on concurrent threads, by statement      *)
(*   SpecWatch      : the WATCH / STOP button and its watch_loop threads   *)
(*   SpecConversation : many think calls in a row on a new brain (A)       *)
(*   SpecRestart    : a think call, then a new brain built from the file   *)
(***************************************************************************)
EXTENDS Integers, Sequences, FiniteSets, TLC

VARIABLES
    variant,        \* "A" or "B": which of the two engines (or "NetworkMonitor")
    consciousness,  \* the engine object (self.consciousness), a record
    turn,           \* number of advance calls completed on this instance
    input,          \* input_energy of the last advance call
    draws,          \* the three generate_fractal_noise() values of the last call (B)
    brain,          \* the brain object around the engine (TrueArdyBrain / ArdyTrueAI)
    disk,           \* content of the memory file
    call,           \* the operation in progress or last completed, and its outcome
    threads,        \* the running threads of the GUI process
    gui             \* the GUI object (TrueArdyGUI / ArdyGUI)

engine == <<variant, consciousness, turn, input, draws>>
shell == <<brain, disk, call, threads, gui>>
vars == <<variant, consciousness, turn, input, draws, brain, disk, call, threads, gui>>

-----------------------------------------------------------------------------
(* Fixed-point representation *)

AmpScale == 10000
PersScale == 20000000
TwoPi == 62832
Pi == 31416

MaxTurns == 3
MaxLongTurns == 64
NoiseMax == 20000

\* x * (num/den), rounded down to the unit
Times(x, num, den) == (x * num) \div den

\* x * y for two fixed-point values
MulAmp(x, y) == (x * y) \div AmpScale

Min(a, b) == IF b < a THEN b ELSE a
Max(a, b) == IF b > a THEN b ELSE a
Abs(x) == IF x < 0 THEN -x ELSE x

\* mutant of Clamp01: the lower clamp forgotten
Clamp01_NoFloor(x) == Min(AmpScale, x)

\* max(0.0, min(1.0, x))
Clamp01(x) == Max(0, Min(AmpScale, x))

\* largest r in lo..hi with r^k <= x   (k = 2 or 3), by bisection
RECURSIVE IRoot(_, _, _, _)
IRoot(k, x, lo, hi) ==
    IF lo >= hi THEN lo
    ELSE LET mid == (lo + hi + 1) \div 2
             p == IF k = 2 THEN mid * mid ELSE mid * mid * mid
         IN IF p <= x THEN IRoot(k, x, mid, hi) ELSE IRoot(k, x, lo, mid - 1)


-----------------------------------------------------------------------------
(* Variant A: QuantumHarmonicConsciousness *)

Emotions == {"joy", "harmony", "contemplation", "concern", "vigilance"}

\* QuantumHarmonicConsciousness.__init__
QuantumHarmonicConsciousness ==
    [ n_fast |-> 1, n_medium |-> 2, n_slow |-> 3,
      \* f = k * n, with k = 1.0
      f_fast |-> 1, f_medium |-> 2, f_slow |-> 3,
      amplitude_fast |-> Times(AmpScale, 5, 10),
      amplitude_medium |-> Times(AmpScale, 5, 10),
      amplitude_slow |-> Times(AmpScale, 5, 10),
      phase_fast |-> 0, phase_medium |-> 0, phase_slow |-> 0,
      emotion |-> "harmony",
      wisdom |-> Times(PersScale, 3, 10),
      empathy |-> Times(PersScale, 3, 10),
      curiosity |-> Times(PersScale, 5, 10),
      creativity |-> Times(PersScale, 3, 10) ]

\* amplitude lines of update_harmonics: each track reads the value the line
\* above it has just assigned; the clamps come after all three assignments
UpdateAmplitudesA(c, e) ==
    LET fast == Times(c.amplitude_fast, 7, 10) + Times(e, 3, 10)
        medium == Times(c.amplitude_medium, 9, 10) + Times(fast, 1, 10)
        slow == Times(c.amplitude_slow, 95, 100) + Times(medium, 5, 100)
    IN [c EXCEPT !.amplitude_fast = Clamp01(fast),
                 !.amplitude_medium = Clamp01(medium),
                 !.amplitude_slow = Clamp01(slow)]

\* mutant of WrapPhase: the wrap forgotten
WrapPhase_None(x) == x

\* x % (2 * math.pi)
WrapPhase(x) == x % TwoPi

\* mutant of UpdatePhases: the step also raises the fast frequency
UpdatePhases_Retune(c) ==
    [c EXCEPT !.phase_fast = WrapPhase(@ + Times(c.f_fast * AmpScale, 1, 10)),
              !.phase_medium = WrapPhase(@ + Times(c.f_medium * AmpScale, 1, 10)),
              !.phase_slow = WrapPhase(@ + Times(c.f_slow * AmpScale, 1, 10)),
              !.f_fast = c.f_medium]

\* phase += 0.1 * f; then the wrap
UpdatePhases(c) ==
    [c EXCEPT !.phase_fast = WrapPhase(@ + Times(c.f_fast * AmpScale, 1, 10)),
              !.phase_medium = WrapPhase(@ + Times(c.f_medium * AmpScale, 1, 10)),
              !.phase_slow = WrapPhase(@ + Times(c.f_slow * AmpScale, 1, 10))]

\* (a_fast * a_medium * a_slow) ** (1/3), in units of 1/1000
ResonanceA(c) ==
    LET p == MulAmp(c.amplitude_fast, c.amplitude_medium) * c.amplitude_slow
    IN IRoot(3, 10 * p, 0, 1000)

\* abs(phase_fast - phase_medium) + abs(phase_medium - phase_slow)
PhaseDiffSum(c) ==
    Abs(c.phase_fast - c.phase_medium) + Abs(c.phase_medium - c.phase_slow)

\* 1.0 - phase_diff_sum * _FOUR_PI_INVERSE
CoherenceA(c) == AmpScale - (PhaseDiffSum(c) * AmpScale) \div (2 * TwoPi)

\* state = resonance * coherence, in units of 1/(1000 * AmpScale)
ScoreA(c) == ResonanceA(c) * CoherenceA(c)

\* mutant of ClassifyA: the comparisons not strict
ClassifyA_NotStrict(state) ==
    IF state >= 800 * AmpScale THEN "joy"
    ELSE IF state >= 600 * AmpScale THEN "harmony"
    ELSE IF state >= 400 * AmpScale THEN "contemplation"
    ELSE IF state >= 200 * AmpScale THEN "concern"
    ELSE "vigilance"

\* the if / elif chain of _update_emotion on state (unit 1/(1000 * AmpScale))
ClassifyA(state) ==
    IF state > 800 * AmpScale THEN "joy"
    ELSE IF state > 600 * AmpScale THEN "harmony"
    ELSE IF state > 400 * AmpScale THEN "contemplation"
    ELSE IF state > 200 * AmpScale THEN "concern"
    ELSE "vigilance"

\* QuantumHarmonicConsciousness._update_emotion
UpdateEmotionA(c) == [c EXCEPT !.emotion = ClassifyA(ScoreA(c))]

\* 0.001 * x and 0.0005 * x, from amplitude / phase units to personality units
Milli(x) == x * (PersScale \div (1000 * AmpScale))
HalfMilli(x) == x * (PersScale \div (2000 * AmpScale))

\* min(1.0, p + amount)
Grow(p, amount) == Min(PersScale, p + amount)

\* _grow_personality (the same statements in both variants)
GrowPersonality(c) ==
    [c EXCEPT !.wisdom = Grow(@, Milli(c.amplitude_slow)),
              !.empathy = Grow(@, Milli(c.amplitude_medium)),
              !.curiosity = Grow(@, Milli(c.amplitude_fast)),
              !.creativity = Grow(@, HalfMilli(PhaseDiffSum(c)))]

\* QuantumHarmonicConsciousness.update_harmonics
update_harmonics(c, e) ==
    GrowPersonality(UpdateEmotionA(UpdatePhases(UpdateAmplitudesA(c, e))))

-----------------------------------------------------------------------------
(* Variant B: AdvancedHarmonicConsciousness.  The record keeps variant A's  *)
(* field names: amplitude_* is A_*, phase_* is phi_*.                       *)

\* AdvancedHarmonicConsciousness.__init__
AdvancedHarmonicConsciousness ==
    [ n_fast |-> 1, n_medium |-> 2, n_slow |-> 3,
      \* f = k * n, with k = 1.0
      f_fast |-> 1, f_medium |-> 2, f_slow |-> 3,
      amplitude_fast |-> Times(AmpScale, 5, 10),
      amplitude_medium |-> Times(AmpScale, 5, 10),
      amplitude_slow |-> Times(AmpScale, 5, 10),
      phase_fast |-> 0, phase_medium |-> 0, phase_slow |-> 0,
      emotion |-> "harmony",
      wisdom |-> Times(PersScale, 3, 10),
      empathy |-> Times(PersScale, 3, 10),
      curiosity |-> Times(PersScale, 5, 10),
      creativity |-> Times(PersScale, 3, 10),
      quantum_awareness |-> Times(AmpScale, 5, 10),
      neural_awareness |-> Times(AmpScale, 7, 10),
      social_awareness |-> Times(AmpScale, 4, 10),
      time |-> 0 ]

\* dA1, dA2, dA3 of update_consciousness: all three read the amplitudes the
\* call started with; noise is <<noise_1, noise_2, noise_3>>, each the value
\* generate_fractal_noise returned
Derivatives(c, e, noise) ==
    LET A1 == c.amplitude_fast
        A2 == c.amplitude_medium
        A3 == c.amplitude_slow
    IN << \* -gamma_1*A1 + alpha_12*A2 + alpha_13*A3 + beta_1*A2*A3 + sigma*noise_1 + e*0.3
          Times(A1, -c.f_fast, 10) + Times(A2, 5, 10) + Times(A3, 25, 100)
            + Times(MulAmp(A2, A3), 2, 10) + Times(noise[1], 3, 10) + Times(e, 3, 10),
          \* -gamma_2*A2 + alpha_21*A1 + alpha_23*A3 + beta_2*A1*A3 + sigma*noise_2 + e*0.1
          Times(A2, -c.f_medium, 10) + Times(A1, -5, 10) + Times(A3, 25, 100)
            + Times(MulAmp(A1, A3), 2, 10) + Times(noise[2], 3, 10) + Times(e, 1, 10),
          \* -gamma_3*A3 + alpha_31*A1 + alpha_32*A2 + beta_3*A1*A2 + sigma*noise_3 + e*0.05
          Times(A3, -c.f_slow, 10) + Times(A1, -25, 100) + Times(A2, -25, 100)
            + Times(MulAmp(A1, A2), 2, 10) + Times(noise[3], 3, 10) + Times(e, 5, 100) >>

\* mutant of UpdateAmplitudesB: each track sees the tracks updated before it
UpdateAmplitudesB_Cascade(c, e, noise) ==
    LET c1 == [c EXCEPT !.amplitude_fast =
                   Clamp01(@ + Times(Derivatives(c, e, noise)[1], 1, 10))]
        c2 == [c1 EXCEPT !.amplitude_medium =
                   Clamp01(@ + Times(Derivatives(c1, e, noise)[2], 1, 10))]
    IN [c2 EXCEPT !.amplitude_slow =
            Clamp01(@ + Times(Derivatives(c2, e, noise)[3], 1, 10))]

\* A += dA * dt (dt = 0.1), then the clamps
UpdateAmplitudesB(c, e, noise) ==
    LET d == Derivatives(c, e, noise)
    IN [c EXCEPT !.amplitude_fast = Clamp01(@ + Times(d[1], 1, 10)),
                 !.amplitude_medium = Clamp01(@ + Times(d[2], 1, 10)),
                 !.amplitude_slow = Clamp01(@ + Times(d[3], 1, 10))]

\* math.sqrt(A_fast**2 + A_medium**2 + A_slow**2) / math.sqrt(3)
ResonanceB(c) ==
    IRoot(2, (c.amplitude_fast * c.amplitude_fast
              + c.amplitude_medium * c.amplitude_medium
              + c.amplitude_slow * c.amplitude_slow) \div 3, 0, 2 * AmpScale)

\* min(d % (2*math.pi), 2*math.pi - d % (2*math.pi))
ShortestArc(d) == Min(d % TwoPi, TwoPi - (d % TwoPi))

\* mutant of CoherenceB: the differences taken as they are, not as shortest arcs
CoherenceB_RawDifferences(c) ==
    LET dphi_12 == Abs(c.phase_fast - 2 * c.phase_medium)
        dphi_23 == Abs(2 * c.phase_medium - 4 * c.phase_slow)
        dphi_31 == Abs(4 * c.phase_slow - c.phase_fast)
    IN AmpScale - ((dphi_12 + dphi_23 + dphi_31) * AmpScale) \div (3 * Pi)

\* AdvancedHarmonicConsciousness.get_coherence
CoherenceB(c) ==
    LET dphi_12 == ShortestArc(Abs(c.phase_fast - 2 * c.phase_medium))
        dphi_23 == ShortestArc(Abs(2 * c.phase_medium - 4 * c.phase_slow))
        dphi_31 == ShortestArc(Abs(4 * c.phase_slow - c.phase_fast))
    IN AmpScale - ((dphi_12 + dphi_23 + dphi_31) * AmpScale) \div (3 * Pi)

\* the if / elif chain of AdvancedHarmonicConsciousness._update_emotion
ClassifyB(resonance, coherence) ==
    IF resonance > Times(AmpScale, 7, 10) /\ coherence > Times(AmpScale, 7, 10) THEN "joy"
    ELSE IF resonance > Times(AmpScale, 5, 10) /\ coherence > Times(AmpScale, 5, 10) THEN "harmony"
    ELSE IF resonance > Times(AmpScale, 3, 10) THEN "contemplation"
    ELSE IF coherence < Times(AmpScale, 3, 10) THEN "concern"
    ELSE "vigilance"

\* AdvancedHarmonicConsciousness._update_emotion
UpdateEmotionB(c) == [c EXCEPT !.emotion = ClassifyB(ResonanceB(c), CoherenceB(c))]

\* AdvancedHarmonicConsciousness._update_awareness
UpdateAwareness(c) ==
    [c EXCEPT !.quantum_awareness = Times(AmpScale, 3, 10) + Times(c.amplitude_fast, 7, 10),
              !.neural_awareness = Times(AmpScale, 3, 10) + Times(c.amplitude_medium, 7, 10),
              !.social_awareness = Times(AmpScale, 3, 10) + Times(c.amplitude_slow, 7, 10)]

\* self.time += self.dt
UpdateTime(c) == [c EXCEPT !.time = @ + Times(AmpScale, 1, 10)]

\* mutant of update_consciousness: the label computed before the amplitudes
\* and phases are updated
update_consciousness_LabelFirst(c, e, noise) ==
    GrowPersonality(UpdateAwareness(
        UpdateTime(UpdatePhases(UpdateAmplitudesB(UpdateEmotionB(c), e, noise)))))

\* AdvancedHarmonicConsciousness.update_consciousness
update_consciousness(c, e, noise) ==
    GrowPersonality(UpdateAwareness(UpdateEmotionB(
        UpdateTime(UpdatePhases(UpdateAmplitudesB(c, e, noise))))))

-----------------------------------------------------------------------------
(* The persisted record and the brain's constructor *)

StateFields == {"amplitude_fast", "amplitude_medium", "amplitude_slow",
                "wisdom", "empathy", "curiosity", "creativity"}

\* a JSON object: the keys it holds and their values
Dict(keys, vals) == [present |-> keys, val |-> vals]

\* mutant of Get: the stored value, whether or not the key is there
Get_NoDefault(d, key, default) == d.val[key]

\* dict.get(key, default)
Get(d, key, default) == IF key \in d.present THEN d.val[key] ELSE default

\* a consciousness_state object holding the fields in keys: amplitudes a,
\* personality scalars p (variant B stores the amplitudes as A_fast, ...)
StateDict(keys, a, p) ==
    Dict(keys, [amplitude_fast |-> a[1], amplitude_medium |-> a[2],
                amplitude_slow |-> a[3], wisdom |-> p[1], empathy |-> p[2],
                curiosity |-> p[3], creativity |-> p[4]])

\* what _load_memory returns: the top-level keys present, and their values
\* (conversation_patterns is conversation_history in variant B)
Memory(keys, state, count) ==
    [present |-> keys, consciousness_state |-> state, interaction_count |-> count,
     learned_from_web |-> {}, conversation_patterns |-> <<>>,
     screens_watched |-> 0, web_searches |-> 0]

NoState == StateDict({}, <<0, 0, 0>>, <<0, 0, 0, 0>>)

\* no file, or a file json.load rejects: _load_memory returns {}
EmptyMemory == Memory({}, NoState, 0)

\* contents of the memory file at start-up
MemoryFiles ==
    { EmptyMemory,
      \* a record without consciousness_state
      Memory({"interaction_count"}, NoState, 7),
      \* a record saved by an earlier session
      Memory({"consciousness_state", "interaction_count"},
             StateDict(StateFields, <<5600, 5060, 5003>>,
                       <<6010006, 6010120, 10011200, 6002000>>), 2),
      \* a record holding only some of the fields
      Memory({"consciousness_state"},
             StateDict({"amplitude_fast", "wisdom"}, <<8000, 0, 0>>, <<9000000, 0, 0, 0>>), 0),
      \* amplitudes at the ends of the range, personality just below 1.0
      Memory({"consciousness_state", "interaction_count"},
             StateDict(StateFields, <<AmpScale, 0, AmpScale>>,
                       <<PersScale - 3, PersScale, PersScale - 20001, PersScale - 1>>), 40),
      \* numbers above the range
      Memory({"consciousness_state"},
             StateDict(StateFields, <<15000, 25000, 12000>>,
                       <<30000000, 20000001, 25000000, 40000000>>), 0),
      \* numbers below the range
      Memory({"consciousness_state"},
             StateDict(StateFields, <<-5000, -1, -20000>>,
                       <<-10000000, -1, -5, -20000000>>), 0),
      \* a record that holds an answer learned from the web
      [Memory({"interaction_count", "learned_from_web"}, NoState, 3)
           EXCEPT !.learned_from_web = {{"tla"}}] }

\* the "Restore consciousness state" block of TrueArdyBrain.__init__ and of
\* ArdyTrueAI.__init__, on a freshly constructed engine c
RestoreState(c, memory) ==
    IF "consciousness_state" \in memory.present
    THEN LET state == memory.consciousness_state
         IN [c EXCEPT !.amplitude_fast = Get(state, "amplitude_fast", Times(AmpScale, 5, 10)),
                      !.amplitude_medium = Get(state, "amplitude_medium", Times(AmpScale, 5, 10)),
                      !.amplitude_slow = Get(state, "amplitude_slow", Times(AmpScale, 5, 10)),
                      !.wisdom = Get(state, "wisdom", Times(PersScale, 3, 10)),
                      !.empathy = Get(state, "empathy", Times(PersScale, 3, 10)),
                      !.curiosity = Get(state, "curiosity", Times(PersScale, 5, 10)),
                      !.creativity = Get(state, "creativity", Times(PersScale, 3, 10))]
    ELSE c

\* the engine a new brain holds: constructed, then restored
NewConsciousness(v, memory) ==
    RestoreState(IF v = "A" THEN QuantumHarmonicConsciousness
                 ELSE AdvancedHarmonicConsciousness, memory)

-----------------------------------------------------------------------------
(* The engine driven by an arbitrary caller *)

\* input energies a caller passes, all in [0, 1]
Energies == {0, Times(AmpScale, 3, 10), Times(AmpScale, 7, 10), AmpScale}

\* the energies the shells pass (think, search_web, observe_screen, the
\* autonomous loop), and the ends of the range
LongEnergies == Energies \cup {Times(AmpScale, 1, 10), Times(AmpScale, 2, 10),
                               Times(AmpScale, 5, 10)}

\* values of the three noise draws of one call
NoiseDraws == {<<NoiseMax, NoiseMax, NoiseMax>>, <<-NoiseMax, -NoiseMax, -NoiseMax>>,
               <<NoiseMax, -NoiseMax, 0>>}

NoNoise == <<0, 0, 0>>

\* the shell variables of a specification that drives the engine directly
NoShell ==
    /\ brain = <<>>
    /\ disk = <<>>
    /\ call = [op |-> "none"]
    /\ threads = <<>>
    /\ gui = <<>>

Init ==
    /\ variant \in {"A", "B"}
    /\ \E memory \in MemoryFiles : consciousness = NewConsciousness(variant, memory)
    /\ turn = 0
    /\ input = 0
    /\ draws = NoNoise
    /\ NoShell

\* one call of consciousness.update_harmonics(e)
AdvanceA(e) ==
    /\ variant = "A"
    /\ consciousness' = update_harmonics(consciousness, e)
    /\ turn' = turn + 1
    /\ input' = e
    /\ UNCHANGED <<variant, draws, shell>>

\* one call of consciousness.update_consciousness(e), the draws being n
AdvanceB(e, n) ==
    /\ variant = "B"
    /\ consciousness' = update_consciousness(consciousness, e, n)
    /\ turn' = turn + 1
    /\ input' = e
    /\ draws' = n
    /\ UNCHANGED <<variant, shell>>

CallA == turn < MaxTurns /\ \E e \in Energies : AdvanceA(e)

CallB == turn < MaxTurns /\ \E e \in Energies : \E n \in NoiseDraws : AdvanceB(e, n)

Next == CallA \/ CallB

Spec == Init /\ [][Next]_vars

(* Long sessions: the caller repeats one input energy (and the draws repeat), *)
(* long enough for every phase to wrap.                                       *)
InitLong ==
    /\ variant \in {"A", "B"}
    /\ \E memory \in MemoryFiles : consciousness = NewConsciousness(variant, memory)
    /\ turn = 0
    /\ input \in LongEnergies
    /\ draws \in (IF variant = "B" THEN NoiseDraws ELSE {NoNoise})
    /\ NoShell

LongCallA == turn < MaxLongTurns /\ AdvanceA(input)

LongCallB == turn < MaxLongTurns /\ AdvanceB(input, draws)

NextLong == LongCallA \/ LongCallB

SpecLong == InitLong /\ [][NextLong]_vars

(* The brain around the engine: TrueArdyBrain (A) and ArdyTrueAI (B).        *)
(* A message is the set of the words and marks it contains ("?" included); a *)
(* text is a sequence of chunks, each a word or a blank " ".                 *)

MaxThinks == 1
PatternCap == 200
HistoryCap == 100
ContextCap == 10

MemoryKeys == {"consciousness_state", "interaction_count", "learned_from_web",
               "conversation_patterns", "screens_watched", "web_searches"}

\* self.memory.get(key, default)
MemGet(memory, key, default) == IF key \in memory.present THEN memory[key] ELSE default

\* seq[-n:]
LastN(seq, n) == IF Len(seq) <= n THEN seq ELSE SubSeq(seq, Len(seq) - n + 1, Len(seq))

\* the fields TrueArdyBrain.__init__ / ArdyTrueAI.__init__ set besides the engine
\* (conversation_patterns is conversation_history in variant B)
NewBrain(memory) ==
    [ learned_from_web |-> MemGet(memory, "learned_from_web", {}),
      conversation_patterns |-> MemGet(memory, "conversation_patterns", <<>>),
      interaction_count |-> MemGet(memory, "interaction_count", 0),
      screens_watched |-> MemGet(memory, "screens_watched", 0),
      web_searches |-> MemGet(memory, "web_searches", 0),
      ollama_available |-> FALSE,
      conversation_context |-> <<>> ]

\* mutant of SavedMemory: the amplitudes written with two decimals
SavedMemory_TwoDecimals(v, b, c) ==
    [ present |-> MemoryKeys,
      consciousness_state |->
          StateDict(StateFields,
                    <<(c.amplitude_fast \div 100) * 100, (c.amplitude_medium \div 100) * 100,
                      (c.amplitude_slow \div 100) * 100>>,
                    <<c.wisdom, c.empathy, c.curiosity, c.creativity>>),
      interaction_count |-> b.interaction_count,
      learned_from_web |-> b.learned_from_web,
      conversation_patterns |->
          LastN(b.conversation_patterns, IF v = "A" THEN PatternCap ELSE HistoryCap),
      screens_watched |-> b.screens_watched,
      web_searches |-> b.web_searches ]

\* the record _save_memory builds and writes
SavedMemory(v, b, c) ==
    [ present |-> MemoryKeys,
      consciousness_state |->
          StateDict(StateFields,
                    <<c.amplitude_fast, c.amplitude_medium, c.amplitude_slow>>,
                    <<c.wisdom, c.empathy, c.curiosity, c.creativity>>),
      interaction_count |-> b.interaction_count,
      learned_from_web |-> b.learned_from_web,
      conversation_patterns |->
          LastN(b.conversation_patterns, IF v = "A" THEN PatternCap ELSE HistoryCap),
      screens_watched |-> b.screens_watched,
      web_searches |-> b.web_searches ]

\* The world a call works on: the brain b, the engine c, the file d, the
\* numbers of update_harmonics / _save_memory calls completed so far in this
\* call, and whether an exception is propagating.
World(b, c, d) ==
    [b |-> b, c |-> c, d |-> d, advances |-> 0, saves |-> 0, raised |-> FALSE,
     writable |-> TRUE, energies |-> <<>>]

\* the same call while the memory file cannot be opened for writing
ReadOnly(w) == [w EXCEPT !.writable = FALSE]

Sign(x) == IF x < 0 THEN -1 ELSE IF x = 0 THEN 0 ELSE 1

\* the Python type of variant A's get_resonance(): a negative float to the
\* power 1/3 is a complex number
ResonanceType(c) ==
    IF Sign(c.amplitude_fast) * Sign(c.amplitude_medium) * Sign(c.amplitude_slow) < 0
    THEN "complex" ELSE "float"

\* an entry of conversation_patterns / conversation_history (the time left out)
Pattern(msg, type) == [message |-> msg, resonance |-> type]

\* json.dump accepts the record: no value of a type it cannot encode
Serializable(memory) ==
    \A k \in 1..Len(memory.conversation_patterns) :
        memory.conversation_patterns[k].resonance # "complex"

\* self._save_memory(): open(file, 'w') empties the file and json.dump writes
\* the whole record, or raises TypeError part-way and leaves a file that
\* json.load rejects, which _load_memory reads as {}; where the file cannot be
\* opened, open raises OSError and the file stays as it was
Save(v, w) ==
    IF ~w.writable THEN [w EXCEPT !.raised = TRUE]
    ELSE IF Serializable(SavedMemory(v, w.b, w.c))
    THEN [w EXCEPT !.d = SavedMemory(v, w.b, w.c), !.saves = @ + 1]
    ELSE [w EXCEPT !.d = EmptyMemory, !.raised = TRUE]

\* self.consciousness.update_harmonics(e)
Harmonics(w, e) ==
    [w EXCEPT !.c = update_harmonics(w.c, e), !.advances = @ + 1,
              !.energies = Append(@, e)]

Positive == {"good", "great", "love", "beautiful", "awesome"}
Negative == {"bad", "hate", "angry", "sad"}
AboutSelf == {"how are you", "what are you", "who are you"}
Greetings == {"hello", "hi", "hey"}
LearningWords == {"learn", "teach", "know"}

\* any(w in msg_lower for w in words)
Has(msg, words) == msg \cap words # {}

\* mutant of InputEnergy: the adjustments add up instead of excluding each other
InputEnergy_Additive(msg) ==
    Times(AmpScale, 3, 10)
      + (IF Has(msg, Positive) THEN Times(AmpScale, 4, 10) ELSE 0)
      + (IF "?" \in msg THEN Times(AmpScale, 2, 10) ELSE 0)
      + (IF Has(msg, Negative) THEN Times(AmpScale, -2, 10) ELSE 0)

\* "Calculate input energy from message"
InputEnergy(msg) ==
    IF Has(msg, Positive) THEN Times(AmpScale, 7, 10)
    ELSE IF "?" \in msg THEN Times(AmpScale, 5, 10)
    ELSE IF Has(msg, Negative) THEN Times(AmpScale, 1, 10)
    ELSE Times(AmpScale, 3, 10)

None == [kind |-> "none", text |-> <<>>]
Text(kind, chunks) == [kind |-> kind, text |-> chunks]

\* Python truthiness of a response: neither None nor ''
Truthy(r) == r.kind # "none" /\ r.text # <<>>

\* str.strip()
RECURSIVE Strip(_)
Strip(t) ==
    IF t = <<>> THEN t
    ELSE IF Head(t) = " " THEN Strip(Tail(t))
    ELSE IF t[Len(t)] = " " THEN Strip(SubSeq(t, 1, Len(t) - 1))
    ELSE t

\* think, from its first line to "Calculate input energy from message"
ThinkPrologue(w, msg) ==
    LET context == Append(w.b.conversation_context, "You")
        b1 == [w.b EXCEPT !.interaction_count = @ + 1,
                          !.conversation_context =
                              IF Len(context) > ContextCap THEN Tail(context) ELSE context,
                          !.conversation_patterns =
                              Append(@, Pattern(msg, ResonanceType(w.c)))]
    IN [w EXCEPT !.b = b1]

\* think, from its first line through self.consciousness.update_harmonics
ThinkBegin(w, msg) == Harmonics(ThinkPrologue(w, msg), InputEnergy(msg))

\* ThinkReturn without its self._save_memory()
ThinkReturn_NoSave(w, response, path) ==
    [w |-> [w EXCEPT !.b.conversation_context = Append(@, "Me")],
     response |-> response, path |-> path, returned |-> TRUE]

\* self.conversation_context.append(f"Me: {response}"); self._save_memory();
\* return response  (an exception of _save_memory leaves think uncaught)
ThinkReturn(w, response, path) ==
    LET saved == Save("A", [w EXCEPT !.b.conversation_context = Append(@, "Me")])
    IN [w |-> saved, response |-> IF saved.raised THEN None ELSE response,
        path |-> path, returned |-> ~saved.raised]

\* "Check for web search need": the condition of the if
AsksWeb(msg) == "?" \in msg /\ ~Has(msg, AboutSelf)

\* the query search_web stores as key: the message without '?'
Query(msg) == msg \ {"?"}

\* for key in self.learned_from_web: if key in msg_lower
CacheHit(b, msg) == \E key \in b.learned_from_web : key \subseteq msg

\* search_web(query): web is the reply of the search service
\*   "answer"    status 200 with an AbstractText or a first related topic
\*   "no_answer" status 200 with neither;  "status" another status code
\*   "error"     requests.get raised (caught by the except of search_web)
WebReplies == {"answer", "no_answer", "status", "error"}

search_web(w, query, web) ==
    IF web = "answer"
    THEN LET saved == Save("A", Harmonics([w EXCEPT !.b.learned_from_web = @ \cup {query},
                                                    !.b.web_searches = @ + 1],
                                          Times(AmpScale, 3, 10)))
         IN IF saved.raised
            \* except Exception as e: print(...); return None
            THEN [w |-> [saved EXCEPT !.raised = FALSE], result |-> None]
            ELSE [w |-> saved, result |-> Text("web", <<"answer">>)]
    ELSE [w |-> w, result |-> None]

\* reply of GET /api/tags: a status code, or requests.get raised ("timeout")
CheckReplies == {"200", "500", "timeout"}

_check_ollama(w, chk) == [w EXCEPT !.b.ollama_available = (chk = "200")]

\* reply of POST /api/generate: raised ("refused"), a status other
\* than 200 ("500"), a body json() rejects ("badjson"), or status 200 with a
\* JSON body whose 'response' is raw (absent: '')
RawTexts == {<<>>, <<" ">>, <<" ", "ok", " ">>}
PostReplies ==
    [kind : {"refused", "500", "badjson"}, raw : {<<>>}]
        \cup [kind : {"200"}, raw : RawTexts]
NotPosted == [kind |-> "not_posted", raw |-> <<>>]

\* _think_ollama: every exception ends in its except: pass, then return None
_think_ollama(post) ==
    IF post.kind = "200" THEN Text("ollama", Strip(post.raw)) ELSE None

\* the response lists of _think_harmonic, each template by its first words
Templates(msg) ==
    IF Has(msg, Greetings)
    THEN << <<"Hello", " ", "Adam!">>, <<"Hi!", " ", "My">>, <<"Hey!", " ", "Phase">>,
            <<"Hello!", " ", "{interaction_count}">> >>
    ELSE IF "?" \in msg
    THEN << <<"Interesting", " ", "question!">>, <<"Let", " ", "me", " ", "think...">>,
            <<"Good", " ", "question!">>, <<"I'll", " ", "search">> >>
    ELSE IF Has(msg, LearningWords)
    THEN << <<"I", " ", "learn">>, <<"Learning", " ", "increases">>,
            <<"I", " ", "learn", " ", "fractally">>, <<"My", " ", "consciousness">> >>
    ELSE << <<"I", " ", "resonate">>, <<"Processing">>, <<"My", " ", "three">>,
            <<"I", " ", "understand">>, <<"My", " ", "consciousness", " ", "operates">>,
            <<"Wisdom:">>, <<"I'm", " ", "here,">>, <<"My", " ", "guardian">> >>

\* _think_harmonic: random.choice(responses) picks the i-th
_think_harmonic(msg, i) == Text("canned", Templates(msg)[i])

\* every text _think_harmonic can return
CannedTexts == UNION {{Templates(m)[i] : i \in 1..Len(Templates(m))} :
                        m \in {{"hello"}, {"?"}, {"learn"}, {}}}

\* TrueArdyBrain.think(message); web, chk, post are the replies of the
\* services it asks, i the template random.choice picks
\* think, from "Check for web search need" to its return, w1 being the world
\* after update_harmonics; web, chk and post are the replies of the services
\* to the requests made, i the template random.choice picks
ThinkRest(w1, msg, web, chk, post, i) ==
    LET searched == search_web(w1, Query(msg), web)
    IN IF AsksWeb(msg) /\ CacheHit(w1.b, msg)
       THEN ThinkReturn(w1, Text("learned", <<"I", " ", "learned">>), "learned")
       ELSE IF AsksWeb(msg) /\ Truthy(searched.result)
       THEN ThinkReturn(searched.w, Text("searched", <<"I", " ", "searched">>), "searched")
       ELSE LET w2 == _check_ollama(IF AsksWeb(msg) THEN searched.w ELSE w1, chk)
                answer == _think_ollama(post)
                answered == ThinkReturn(w2, answer, "ollama")
            IN IF w2.b.ollama_available /\ Truthy(answer)
               THEN IF answered.returned THEN answered
                    \* except: pass, around the _save_memory of this path too
                    ELSE ThinkReturn([answered.w EXCEPT !.raised = FALSE],
                                     _think_harmonic(msg, i), "canned")
               ELSE ThinkReturn(w2, _think_harmonic(msg, i), "canned")

\* TrueArdyBrain.think(message)
ThinkA(w0, msg, web, chk, post, i) ==
    ThinkRest(ThinkBegin(w0, msg), msg, web, chk, post, i)

\* ArdyTrueAI._generate_response, each template by its first words
_generate_response(msg) ==
    IF Has(msg, Greetings) THEN Text("canned", <<"Hello", " ", "Adam!">>)
    ELSE IF "how are you" \in msg THEN Text("canned", <<"I'm", " ", "in">>)
    ELSE IF Has(msg, {"fractal", "harmonic"}) THEN Text("canned", <<"The", " ", "Fractal">>)
    ELSE Text("canned", <<"I", " ", "understand,">>)

\* ArdyTrueAI.think, from "Generate response" to its return
ThinkRestB(w2, msg) ==
    LET response == _generate_response(msg)
        \* variant B's get_resonance is a square root of a sum of squares
        w3 == [w2 EXCEPT !.b.conversation_patterns = Append(@, Pattern(msg, "float"))]
        saved == Save("B", w3)
    IN [w |-> saved, response |-> IF saved.raised THEN None ELSE response,
        path |-> "canned", returned |-> ~saved.raised]

\* ArdyTrueAI.think(message), the draws of its update_consciousness being n
ThinkB(w0, msg, n) ==
    LET w1 == [w0 EXCEPT !.b.interaction_count = @ + 1]
    IN ThinkRestB([w1 EXCEPT !.c = update_consciousness(w1.c, InputEnergy(msg), n),
                             !.advances = @ + 1,
                             !.energies = Append(@, InputEnergy(msg))], msg)

\* messages the user sends
Messages == { {"hello"}, {"tla", "?"}, {"how are you", "?"}, {"love", "teach"}, {"sad"} }

NoCall == [op |-> "none"]

InitThink ==
    /\ variant \in {"A", "B"}
    /\ \E memory \in MemoryFiles :
         /\ consciousness = NewConsciousness(variant, memory)
         /\ brain = NewBrain(memory)
         /\ disk = memory
    /\ turn = 0
    /\ input = 0
    /\ draws = NoNoise
    /\ call = NoCall
    /\ threads = <<>>
    /\ gui = <<>>

\* the state after a think call whose result is r
Thought(r, msg, chk, post) ==
    /\ brain' = r.w.b
    /\ consciousness' = r.w.c
    /\ disk' = r.w.d
    /\ turn' = turn + r.w.advances
    /\ input' = InputEnergy(msg)
    /\ call' = [op |-> "think", msg |-> msg, path |-> r.path, response |-> r.response,
                returned |-> r.returned, check |-> chk, post |-> post,
                advances |-> r.w.advances, saves |-> r.w.saves]
    /\ UNCHANGED <<variant, threads, gui>>

\* one brain.think(msg) call of variant A in the world w0, with the replies the
\* services give to the requests the call makes
ThinkCallOnA(w0) ==
    /\ variant = "A"
    /\ turn < MaxThinks
    /\ \E msg \in Messages :
         LET cached == AsksWeb(msg) /\ CacheHit(brain, msg)
         IN \E web \in (IF AsksWeb(msg) /\ ~cached THEN WebReplies ELSE {"not_asked"}) :
              LET early == cached \/ Truthy(search_web(ThinkBegin(w0, msg), Query(msg), web).result)
              IN \E chk \in (IF early THEN {"not_asked"} ELSE CheckReplies) :
                   \E post \in (IF chk = "200" THEN PostReplies ELSE {NotPosted}) :
                     \E i \in (IF early THEN {1} ELSE 1..Len(Templates(msg))) :
                          /\ Thought(ThinkA(w0, msg, web, chk, post, i), msg, chk, post)
                          /\ draws' = draws

ThinkCallA == ThinkCallOnA(World(brain, consciousness, disk))

\* one brain.think(msg) call of variant B
ThinkCallOnB(w0) ==
    /\ variant = "B"
    /\ turn < MaxThinks
    /\ \E msg \in Messages : \E n \in NoiseDraws :
         /\ Thought(ThinkB(w0, msg, n), msg, "not_asked", NotPosted)
         /\ draws' = n

ThinkCallB == ThinkCallOnB(World(brain, consciousness, disk))

NextThink == ThinkCallA \/ ThinkCallB

SpecThink == InitThink /\ [][NextThink]_vars

-----------------------------------------------------------------------------
(* The threads of the two programs.  Variant A: TrueArdyGUI.send starts one  *)
(* thread per message, which runs process -> brain.think; toggle_watch       *)
(* starts a thread running watch_loop -> brain.observe_screen.  Variant B:   *)
(* ArdyGUI.send_message runs think on the UI thread, and ArdyGUI.__init__    *)
(* has started the _autonomous_loop thread.  No lock is taken anywhere.  A   *)
(* thread can be preempted between any two bytecodes; the steps below are    *)
(* coarser: the statement groups of the advance, and the code around it.     *)

MaxSends == 2
MaxWatchers == 1
MaxRounds == 1

ThreadMessages == { {"hello"}, {"love", "teach"} }

\* the statement groups of update_harmonics / update_consciousness in order:
\* amplitudes and their clamps; phases and their wrap (and self.time);
\* self._update_emotion() (and _update_awareness); self._grow_personality()
Stages == <<"amplitudes", "phases", "emotion", "personality">>

AdvanceStage(v, stage, c, e, n) ==
    IF stage = "amplitudes"
    THEN IF v = "A" THEN UpdateAmplitudesA(c, e) ELSE UpdateAmplitudesB(c, e, n)
    ELSE IF stage = "phases"
    THEN IF v = "A" THEN UpdatePhases(c) ELSE UpdateTime(UpdatePhases(c))
    ELSE IF stage = "emotion"
    THEN IF v = "A" THEN UpdateEmotionA(c) ELSE UpdateAwareness(UpdateEmotionB(c))
    ELSE GrowPersonality(c)

NextStage(stage, after) ==
    IF stage = "amplitudes" THEN "phases"
    ELSE IF stage = "phases" THEN "emotion"
    ELSE IF stage = "emotion" THEN "personality"
    ELSE after

\* a thread: what it runs, the statement group it executes next, the message
\* and input energy of its call, where it goes after the advance, and the
\* number of loop rounds it has completed
Thread(kind, pc, msg, e, after) ==
    [kind |-> kind, pc |-> pc, msg |-> msg, e |-> e, after |-> after, rounds |-> 0]

\* the thread has begun update_harmonics / update_consciousness and has not
\* finished it
InAdvance(th) == th.pc \in {"phases", "emotion", "personality"}

Count(kind) == Cardinality({t \in DOMAIN threads : threads[t].kind = kind})

InitThreads ==
    /\ variant \in {"A", "B"}
    /\ consciousness = NewConsciousness(variant, EmptyMemory)
    /\ brain = NewBrain(EmptyMemory)
    /\ disk = EmptyMemory
    /\ turn = 0
    /\ input = 0
    /\ draws = NoNoise
    /\ call = NoCall
    /\ threads = IF variant = "A" THEN <<>>
                 ELSE << Thread("ui", "idle", {}, 0, "respond"),
                         Thread("autonomous", "loop", {}, 0, "save") >>
    /\ gui = [watching |-> FALSE]

\* thread t moves to pc
Goto(t, pc) == threads' = [threads EXCEPT ![t].pc = pc]

\* TrueArdyGUI.send: a new thread for the message
send ==
    /\ variant = "A"
    /\ Count("think") < MaxSends
    /\ \E msg \in ThreadMessages :
         threads' = Append(threads, Thread("think", "begin", msg, InputEnergy(msg), "respond"))
    /\ UNCHANGED <<engine, brain, disk, call, gui>>

\* ArdyGUI.send_message: the UI thread enters think
send_message ==
    /\ variant = "B"
    /\ threads[1].pc = "idle"
    /\ brain.interaction_count < MaxSends
    /\ \E msg \in ThreadMessages :
         threads' = [threads EXCEPT ![1] = [@ EXCEPT !.pc = "begin", !.msg = msg,
                                                     !.e = InputEnergy(msg)]]
    /\ UNCHANGED <<engine, brain, disk, call, gui>>

\* the input energy of observe_screen: self.consciousness.update_harmonics(0.2)
ObserveEnergy == Times(AmpScale, 2, 10)

\* TrueArdyGUI.toggle_watch
toggle_watch ==
    /\ variant = "A"
    /\ IF gui.watching
       THEN /\ gui' = [gui EXCEPT !.watching = FALSE]
            /\ UNCHANGED threads
       ELSE /\ Count("watch") < MaxWatchers
            /\ gui' = [gui EXCEPT !.watching = TRUE]
            /\ threads' = Append(threads, Thread("watch", "loop", {}, ObserveEnergy, "save"))
    /\ UNCHANGED <<engine, brain, disk, call>>

\* think, up to its call of update_harmonics / update_consciousness
ThinkEnter(t) ==
    /\ threads[t].pc = "begin"
    /\ brain' = IF variant = "A"
                THEN ThinkPrologue(World(brain, consciousness, disk), threads[t].msg).b
                ELSE [brain EXCEPT !.interaction_count = @ + 1]
    /\ Goto(t, "amplitudes")
    /\ UNCHANGED <<engine, disk, call, gui>>

\* one statement group of update_harmonics / update_consciousness
AdvanceStep(t) ==
    LET th == threads[t]
    IN /\ th.pc \in {Stages[k] : k \in 1..Len(Stages)}
       /\ \E n \in (IF variant = "B" /\ th.pc = "amplitudes" THEN NoiseDraws ELSE {draws}) :
            /\ consciousness' = AdvanceStage(variant, th.pc, consciousness, th.e, n)
            /\ draws' = n
       /\ turn' = IF th.pc = "personality" THEN turn + 1 ELSE turn
       /\ input' = IF th.pc = "personality" THEN th.e ELSE input
       /\ Goto(t, NextStage(th.pc, th.after))
       /\ UNCHANGED <<variant, brain, disk, call, gui>>

\* think, from the return of the advance to its own return; in variant A with
\* the search service and the backend unreachable
Respond(t) ==
    LET th == threads[t]
        w == World(brain, consciousness, disk)
    IN /\ th.pc = "respond"
       /\ \E i \in 1..Len(Templates(th.msg)) :
            LET r == IF variant = "A"
                     THEN ThinkRest(w, th.msg, "error", "timeout", NotPosted, i)
                     ELSE ThinkRestB(w, th.msg)
            IN /\ brain' = r.w.b
               /\ disk' = r.w.d
       /\ Goto(t, IF th.kind = "ui" THEN "idle" ELSE "done")
       /\ UNCHANGED <<engine, call, gui>>

\* TrueArdyGUI.watch_loop with observe_screen up to its update_harmonics(0.2);
\* ImageGrab.grab() raising is caught by observe_screen, then time.sleep(30)
watch_loop(t) ==
    LET th == threads[t]
    IN /\ th.kind = "watch" /\ th.pc = "loop"
       /\ IF ~gui.watching
          THEN Goto(t, "done") /\ UNCHANGED brain
          ELSE /\ th.rounds < MaxRounds
               /\ \/ /\ brain' = [brain EXCEPT !.screens_watched = @ + 1]
                     /\ Goto(t, "amplitudes")
                  \/ /\ threads' = [threads EXCEPT ![t].rounds = @ + 1]
                     /\ UNCHANGED brain
       /\ UNCHANGED <<engine, disk, call, gui>>

\* ArdyTrueAI._autonomous_loop after its sleep: random.choice(activities)
Activities == {"meditate", "explore", "dream", "practice", "reflect"}

\* the input energy of the activities that advance the engine
ActivityEnergies ==
    [meditate |-> Times(AmpScale, 2, 10), explore |-> Times(AmpScale, 5, 10),
     dream |-> Times(AmpScale, 3, 10)]

_autonomous_loop(t) ==
    LET th == threads[t]
    IN /\ th.kind = "autonomous" /\ th.pc = "loop"
       /\ th.rounds < MaxRounds
       /\ \E activity \in Activities :
            threads' = [threads EXCEPT ![t] =
                IF activity \in DOMAIN ActivityEnergies
                THEN [th EXCEPT !.pc = "amplitudes", !.e = ActivityEnergies[activity]]
                ELSE [th EXCEPT !.pc = "save"]]
       /\ UNCHANGED <<engine, brain, disk, call, gui>>

\* self._save_memory() at the end of observe_screen and of a round of
\* _autonomous_loop, then the loop's next round
SaveStep(t) ==
    /\ threads[t].pc = "save"
    /\ disk' = Save(variant, World(brain, consciousness, disk)).d
    /\ threads' = [threads EXCEPT ![t].pc = "loop", ![t].rounds = @ + 1]
    /\ UNCHANGED <<engine, brain, call, gui>>

ThinkEnters == \E t \in DOMAIN threads : ThinkEnter(t)
AdvanceSteps == \E t \in DOMAIN threads : AdvanceStep(t)
Responds == \E t \in DOMAIN threads : Respond(t)
WatchLoops == \E t \in DOMAIN threads : watch_loop(t)
AutonomousLoops == \E t \in DOMAIN threads : _autonomous_loop(t)
SaveSteps == \E t \in DOMAIN threads : SaveStep(t)

NextThreads ==
    \/ send \/ send_message \/ toggle_watch
    \/ ThinkEnters \/ AdvanceSteps \/ Responds
    \/ WatchLoops \/ AutonomousLoops \/ SaveSteps

SpecThreads == InitThreads /\ [][NextThreads]_vars

-----------------------------------------------------------------------------
(* Rule A's amplitude statements in the arithmetic Python runs them in:      *)
(* IEEE 754 binary64, every product and sum rounded to nearest, ties to      *)
(* even.  A float is m * 2^e with m a 53-bit natural number (or zero), kept  *)
(* as a sequence of limbs, least significant first.  Only the non-negative   *)
(* normal range is modelled: the amplitudes and inputs used lie in [0, 1].   *)

Precision == 53
LimbBits == 13
Base == 8192

RECURSIVE Pow2(_)
Pow2(n) == IF n = 0 THEN 1 ELSE 2 * Pow2(n - 1)

\* the natural number without its leading zero limbs
RECURSIVE Trim(_)
Trim(a) == IF a # <<>> /\ a[Len(a)] = 0 THEN Trim(SubSeq(a, 1, Len(a) - 1)) ELSE a

\* a + b + c
RECURSIVE AddC(_, _, _)
AddC(a, b, c) ==
    IF a = <<>> /\ b = <<>> THEN (IF c = 0 THEN <<>> ELSE <<c>>)
    ELSE LET x == (IF a = <<>> THEN 0 ELSE Head(a)) + (IF b = <<>> THEN 0 ELSE Head(b)) + c
         IN <<x % Base>> \o AddC(IF a = <<>> THEN a ELSE Tail(a),
                                 IF b = <<>> THEN b ELSE Tail(b), x \div Base)

\* a * k + c, for k <= Base
RECURSIVE MulSmall(_, _, _)
MulSmall(a, k, c) ==
    IF a = <<>> THEN (IF c = 0 THEN <<>> ELSE <<c>>)
    ELSE LET x == Head(a) * k + c
         IN <<x % Base>> \o MulSmall(Tail(a), k, x \div Base)

\* a * b
RECURSIVE Mul(_, _)
Mul(a, b) ==
    IF b = <<>> \/ a = <<>> THEN <<>>
    ELSE Trim(AddC(MulSmall(a, Head(b), 0), <<0>> \o Mul(a, Tail(b)), 0))

\* quotient and remainder of a by k
RECURSIVE DivRem(_, _)
DivRem(a, k) ==
    IF a = <<>> THEN [q |-> <<>>, r |-> 0]
    ELSE LET hi == DivRem(Tail(a), k)
             x == hi.r * Base + Head(a)
         IN [q |-> <<x \div k>> \o hi.q, r |-> x % k]

\* a * 2^n and a \div 2^n
ShiftLeft(a, n) ==
    IF a = <<>> THEN a
    ELSE [k \in 1..(n \div LimbBits) |-> 0] \o MulSmall(a, Pow2(n % LimbBits), 0)
ShiftRight(a, n) ==
    IF n \div LimbBits >= Len(a) THEN <<>>
    ELSE Trim(DivRem(SubSeq(a, n \div LimbBits + 1, Len(a)), Pow2(n % LimbBits)).q)

RECURSIVE Bits(_)
Bits(x) == IF x = 0 THEN 0 ELSE 1 + Bits(x \div 2)

\* number of bits of a (a without leading zero limbs)
BitLen(a) == IF a = <<>> THEN 0 ELSE (Len(a) - 1) * LimbBits + Bits(a[Len(a)])

Odd(a) == a # <<>> /\ a[1] % 2 = 1

\* a < b, both without leading zero limbs
RECURSIVE Less(_, _)
Less(a, b) ==
    IF Len(a) # Len(b) THEN Len(a) < Len(b)
    ELSE IF a = <<>> THEN FALSE
    ELSE IF a[Len(a)] # b[Len(b)] THEN a[Len(a)] < b[Len(b)]
    ELSE Less(SubSeq(a, 1, Len(a) - 1), SubSeq(b, 1, Len(b) - 1))

Zero == [m |-> <<>>, e |-> 0]

\* the binary64 value nearest to m * 2^e, ties to even
Round(m, e) ==
    LET a == Trim(m)
        len == BitLen(a)
        n == len - Precision
        q == ShiftRight(a, n)
        half == Odd(ShiftRight(a, n - 1))
        sticky == a # ShiftLeft(ShiftRight(a, n - 1), n - 1)
        q1 == IF half /\ (sticky \/ Odd(q)) THEN Trim(AddC(q, <<1>>, 0)) ELSE q
    IN IF len = 0 THEN Zero
       ELSE IF len <= Precision THEN [m |-> ShiftLeft(a, Precision - len), e |-> e - (Precision - len)]
       ELSE IF BitLen(q1) > Precision THEN [m |-> ShiftRight(q1, 1), e |-> e + n + 1]
       ELSE [m |-> q1, e |-> e + n]

\* x * y and x + y of Python floats
FMul(x, y) == Round(Mul(x.m, y.m), x.e + y.e)
FAdd(x, y) ==
    IF x.m = <<>> THEN y
    ELSE IF y.m = <<>> THEN x
    ELSE LET e == Min(x.e, y.e)
         IN Round(AddC(ShiftLeft(x.m, x.e - e), ShiftLeft(y.m, y.e - e), 0), e)

\* x < y
FLess(x, y) ==
    IF y.m = <<>> THEN FALSE
    ELSE IF x.m = <<>> THEN TRUE
    ELSE IF x.e # y.e THEN x.e < y.e
    ELSE Less(x.m, y.m)

\* the float a decimal literal num/den denotes: the quotient to 13 bits more
\* than the precision, a last bit telling whether the division left a
\* remainder, rounded
Literal(num, den) ==
    LET d == DivRem(ShiftLeft(<<num>>, 5 * LimbBits), den)
    IN IF num = 0 THEN Zero
       ELSE Round(AddC(MulSmall(Trim(d.q), 2, 0), <<>>, IF d.r = 0 THEN 0 ELSE 1),
                  0 - 5 * LimbBits - 1)

\* max(0.0, min(1.0, x))
ClampF(x) ==
    LET one == Literal(1, 1)
        least == IF FLess(x, one) THEN x ELSE one
    IN IF FLess(Zero, least) THEN least ELSE Zero

\* mutant of UpdateAmplitudesF: every track fed by the value the track above
\* it had before the call
UpdateAmplitudesF_Stale(c, e) ==
    [c EXCEPT !.amplitude_fast =
                  ClampF(FAdd(FMul(c.amplitude_fast, Literal(7, 10)), FMul(e, Literal(3, 10)))),
              !.amplitude_medium =
                  ClampF(FAdd(FMul(c.amplitude_medium, Literal(9, 10)),
                              FMul(c.amplitude_fast, Literal(1, 10)))),
              !.amplitude_slow =
                  ClampF(FAdd(FMul(c.amplitude_slow, Literal(95, 100)),
                              FMul(c.amplitude_medium, Literal(5, 100))))]

\* mutant of BlendF: the fast track decays by 0.8, so that decay and coupling
\* add up to more than 1
BlendF_Overdriven(c, e) ==
    LET fast == FAdd(FMul(c.amplitude_fast, Literal(8, 10)), FMul(e, Literal(3, 10)))
        medium == FAdd(FMul(c.amplitude_medium, Literal(9, 10)), FMul(fast, Literal(1, 10)))
        slow == FAdd(FMul(c.amplitude_slow, Literal(95, 100)), FMul(medium, Literal(5, 100)))
    IN [fast |-> fast, medium |-> medium, slow |-> slow]

\* update_harmonics, "Update amplitudes": the three values before the clamp
BlendF(c, e) ==
    LET fast == FAdd(FMul(c.amplitude_fast, Literal(7, 10)), FMul(e, Literal(3, 10)))
        medium == FAdd(FMul(c.amplitude_medium, Literal(9, 10)), FMul(fast, Literal(1, 10)))
        slow == FAdd(FMul(c.amplitude_slow, Literal(95, 100)), FMul(medium, Literal(5, 100)))
    IN [fast |-> fast, medium |-> medium, slow |-> slow]

\* update_harmonics, "Update amplitudes" and "Normalize to [0, 1]"
UpdateAmplitudesF(c, e) ==
    LET blend == BlendF(c, e)
    IN [c EXCEPT !.amplitude_fast = ClampF(blend.fast),
                 !.amplitude_medium = ClampF(blend.medium),
                 !.amplitude_slow = ClampF(blend.slow)]

\* amplitudes and input energies as Python floats
FloatGrid == { Literal(0, 1), Literal(1, 10), Literal(5, 10), Literal(56, 100), Literal(1, 1) }
FloatEnergies == { Literal(0, 1), Literal(1, 10), Literal(3, 10), Literal(7, 10), Literal(1, 1) }

InitFloat ==
    /\ variant = "A"
    /\ \E f \in FloatGrid, m \in FloatGrid, s \in {Literal(0, 1), Literal(5, 10), Literal(1, 1)} :
         consciousness = [QuantumHarmonicConsciousness EXCEPT !.amplitude_fast = f,
                                                              !.amplitude_medium = m,
                                                              !.amplitude_slow = s]
    /\ input \in FloatEnergies
    /\ turn = 0
    /\ draws = NoNoise
    /\ NoShell

\* the amplitude statements of one update_harmonics(input) call
ApplyUpdateAmplitudes ==
    /\ turn = 0
    /\ consciousness' = UpdateAmplitudesF(consciousness, input)
    /\ turn' = 1
    /\ UNCHANGED <<variant, input, draws, shell>>

NextFloat == ApplyUpdateAmplitudes

SpecFloat == InitFloat /\ [][NextFloat]_vars

(* _update_emotion of variant A as a function of the engine state: the       *)
(* amplitudes and phases are drawn from grids that put resonance x coherence *)
(* on, just above and between the thresholds.                                *)
AmplitudeGrid ==
    {a \in 0..AmpScale : \E k \in {0, 2, 4, 6, 8, 10} : \E o \in {0, 10} :
                           a = Times(AmpScale, k, 10) + o}

PhaseGrid == {<<0, 0, 0>>, <<1000, 2000, 3000>>, <<61832, 60832, 59832>>}

InitEmotion ==
    /\ variant = "A"
    /\ \E f \in AmplitudeGrid : \E m \in {f, AmpScale} : \E s \in {f, m, AmpScale} :
         \E ph \in PhaseGrid : \E label \in {"harmony", "joy"} :
           consciousness = [QuantumHarmonicConsciousness EXCEPT
                              !.amplitude_fast = f, !.amplitude_medium = m,
                              !.amplitude_slow = s, !.phase_fast = ph[1],
                              !.phase_medium = ph[2], !.phase_slow = ph[3],
                              !.emotion = label]
    /\ turn = 0
    /\ input = 0
    /\ draws = NoNoise
    /\ NoShell

\* one call of consciousness._update_emotion()
ApplyUpdateEmotion ==
    /\ call.op = "none"
    /\ consciousness' = UpdateEmotionA(consciousness)
    /\ call' = [op |-> "_update_emotion"]
    /\ UNCHANGED <<variant, turn, input, draws, brain, disk, threads, gui>>

NextEmotion == ApplyUpdateEmotion

SpecEmotion == InitEmotion /\ [][NextEmotion]_vars

-----------------------------------------------------------------------------
(* Claims *)

InUnit(x) == 0 <= x /\ x <= AmpScale

\* C1: when update_harmonics (Rule A) or update_consciousness (Rule B)
\* returns, each of the three amplitudes lies in [0,1], whatever the engine
\* state before the call (restored records included), the input energy in
\* [0,1] and the noise draws.
C1_AmplitudesInRange ==
    turn > 0 => /\ InUnit(consciousness.amplitude_fast)
                /\ InUnit(consciousness.amplitude_medium)
                /\ InUnit(consciousness.amplitude_slow)

\* C1 witness: Rule B has run and the clamp has stopped one track at 1 and
\* another at 0.
C1_Witness ==
    /\ variant = "B"
    /\ turn > 0
    /\ consciousness.amplitude_fast = AmpScale
    /\ consciousness.amplitude_medium = 0

\* C2: across advance calls, none of wisdom, empathy, curiosity, creativity
\* is smaller after a call than before it.
C2_PersonalityMonotone ==
    [][/\ consciousness'.wisdom >= consciousness.wisdom
       /\ consciousness'.empathy >= consciousness.empathy
       /\ consciousness'.curiosity >= consciousness.curiosity
       /\ consciousness'.creativity >= consciousness.creativity]_vars

InPersUnit(x) == 0 <= x /\ x <= PersScale

\* C3: after every advance call each of the four personality scalars lies in
\* [0,1], for an engine built with the default seeds or restored from a
\* persisted record.
C3_PersonalityInRange ==
    turn > 0 => /\ InPersUnit(consciousness.wisdom)
                /\ InPersUnit(consciousness.empathy)
                /\ InPersUnit(consciousness.curiosity)
                /\ InPersUnit(consciousness.creativity)

\* C4: after every advance call, in both variants, each of the three phases
\* satisfies 0 <= phase < 2*pi.
C4_PhasesWrapped ==
    turn > 0 => /\ 0 <= consciousness.phase_fast /\ consciousness.phase_fast < TwoPi
                /\ 0 <= consciousness.phase_medium /\ consciousness.phase_medium < TwoPi
                /\ 0 <= consciousness.phase_slow /\ consciousness.phase_slow < TwoPi

\* C4 witness: all three phases have wrapped (the fast one wraps last, on the
\* 63rd call) in variant B.
C4_Witness ==
    /\ variant = "B"
    /\ turn = 63
    /\ consciousness.phase_fast < Times(AmpScale, 1, 10)

\* the amplitudes Rule A's formulas give, evaluated in binary64
C5_Expected(c, e) ==
    LET f1 == FAdd(FMul(Literal(7, 10), c.amplitude_fast), FMul(Literal(3, 10), e))
        m1 == FAdd(FMul(Literal(9, 10), c.amplitude_medium), FMul(Literal(1, 10), f1))
        s1 == FAdd(FMul(Literal(95, 100), c.amplitude_slow), FMul(Literal(5, 100), m1))
    IN <<ClampF(f1), ClampF(m1), ClampF(s1)>>

C5_Amplitudes(c) == <<c.amplitude_fast, c.amplitude_medium, c.amplitude_slow>>

\* the default fast amplitude 0.5 and advance(0.7)
C5_GoldenCall == consciousness.amplitude_fast = Literal(5, 10) /\ input = Literal(7, 10)

\* x is the float next below y
C5_NextBelow(x, y) == x.e = y.e /\ Trim(AddC(x.m, <<1>>, 0)) = y.m

(* C5 as stated: Rule A maps (f, m, s) and input e to f' = 0.7 f + 0.3 e,    *)
(* m' = 0.9 m + 0.1 f', s' = 0.95 s + 0.05 m', each clamped to [0,1], and    *)
(* from the default state advance(0.7) yields amplitude_fast = 0.56.         *)
C5_AsStated ==
    [][turn' = turn + 1 =>
         /\ C5_Amplitudes(consciousness') = C5_Expected(consciousness, input)
         /\ C5_GoldenCall => consciousness'.amplitude_fast = Literal(56, 100)]_vars

(* C5 amended: Rule A maps (f, m, s) and input e to f' = 0.7 f + 0.3 e,      *)
(* m' = 0.9 m + 0.1 f', s' = 0.95 s + 0.05 m' (each track fed by the value   *)
(* just computed for the track above it), each clamped to [0,1]; from the    *)
(* default state advance(0.7) yields 0.5*0.7 + 0.7*0.3 as binary64 computes  *)
(* it, 0.5599999999999999, the float next below 0.56.                        *)
C5_RuleA ==
    [][turn' = turn + 1 =>
         /\ C5_Amplitudes(consciousness') = C5_Expected(consciousness, input)
         /\ C5_GoldenCall =>
                C5_NextBelow(consciousness'.amplitude_fast, Literal(56, 100))]_vars

\* C5 witness: the default engine after advance(0.7): fast is one unit in
\* the last place below 0.56, medium 0.506 was fed by it, slow 0.5003 by that
C5_Witness ==
    /\ turn = 1
    /\ input = Literal(7, 10)
    /\ C5_NextBelow(consciousness.amplitude_fast, Literal(56, 100))
    /\ consciousness.amplitude_medium = Literal(506, 1000)
    /\ consciousness.amplitude_slow = Literal(5003, 10000)

\* the label the variant's rule gives to the current amplitudes and phases
CurrentLabel ==
    IF variant = "A" THEN ClassifyA(ScoreA(consciousness))
    ELSE ClassifyB(ResonanceB(consciousness), CoherenceB(consciousness))

\* C6: after every advance call the cached emotion label is the label the
\* variant's classification rule assigns to the amplitudes and phases that
\* call produced.
C6_EmotionFresh == turn > 0 => consciousness.emotion = CurrentLabel

\* C6 witness: an advance has moved the label away from the constructor's
\* 'harmony', in variant B.
C6_Witness ==
    /\ variant = "B"
    /\ turn > 0
    /\ consciousness.emotion = "contemplation"
    /\ CurrentLabel = "contemplation"

\* C7: variant A's classification is a total five-way step function of
\* s = resonance x coherence with strict thresholds: s > 0.8 joy,
\* 0.6 < s <= 0.8 harmony, 0.4 < s <= 0.6 contemplation, 0.2 < s <= 0.4
\* concern, s <= 0.2 vigilance; a value equal to a threshold falls in the
\* lower bucket and the label is always one of the five.
C7_Bucket(label, score) ==
    LET unit == 1000 * AmpScale
    IN CASE label = "joy" -> 10 * score > 8 * unit
         [] label = "harmony" -> 10 * score > 6 * unit /\ 10 * score <= 8 * unit
         [] label = "contemplation" -> 10 * score > 4 * unit /\ 10 * score <= 6 * unit
         [] label = "concern" -> 10 * score > 2 * unit /\ 10 * score <= 4 * unit
         [] label = "vigilance" -> 10 * score <= 2 * unit
         [] OTHER -> FALSE

C7_StepFunction ==
    call.op = "_update_emotion" =>
        /\ consciousness.emotion \in Emotions
        /\ C7_Bucket(consciousness.emotion, ScoreA(consciousness))

\* C7 witness: s is exactly 0.8 (amplitudes 0.8, 0.8, 0.8 with equal phases)
\* and the label computed is 'harmony', the lower bucket.
C7_Witness ==
    /\ call.op = "_update_emotion"
    /\ 10 * ScoreA(consciousness) = 8 * 1000 * AmpScale
    /\ consciousness.emotion = "harmony"

\* the text-generation backend failed during the last think call: GET /api/tags
\* or POST /api/generate was refused, timed out or answered another status
\* than 200, or the generated text was empty
BackendFailed ==
    /\ call.op = "think"
    /\ \/ call.check \in {"500", "timeout"}
       \/ /\ call.check = "200"
          /\ \/ call.post.kind \in {"refused", "500"}
             \/ call.post.kind = "200" /\ call.post.raw = <<>>

(* C9: when the text-generation backend is unreachable, times out, answers   *)
(* with a status other than 200 or returns empty text, think() of variant A  *)
(* raises nothing and returns a non-empty text taken from the built-in       *)
(* templates.                                                                *)
C9_FallbackCanned ==
    BackendFailed /\ variant = "A" =>
        /\ call.returned
        /\ call.response.text # <<>>
        /\ call.response.text \in CannedTexts

(* C10: a think() call that returned has completed _save_memory at least     *)
(* once after the last advance of that call, so the file holds the whole     *)
(* record with the engine's present amplitudes and personality scalars and   *)
(* the present interaction count, whatever path produced the response.       *)
C10_SavedBeforeReturn ==
    call.op = "think" /\ call.returned =>
        /\ call.advances >= 1
        /\ call.saves >= 1
        /\ disk.present = MemoryKeys
        /\ disk.consciousness_state =
               StateDict(StateFields,
                         <<consciousness.amplitude_fast, consciousness.amplitude_medium,
                           consciousness.amplitude_slow>>,
                         <<consciousness.wisdom, consciousness.empathy,
                           consciousness.curiosity, consciousness.creativity>>)
        /\ disk.interaction_count = brain.interaction_count

\* C10 witness: a think call that returned on the web-search path, with two
\* advances and two saves, the file's interaction count 2 now 3
C10_Witness ==
    /\ call.op = "think" /\ call.returned
    /\ call.path = "searched" /\ call.advances = 2 /\ call.saves = 2
    /\ disk.interaction_count = 3

(* C8: no two executions of update_harmonics / update_consciousness on the   *)
(* same engine overlap: at any time at most one thread, whether a think      *)
(* thread, the screen-watch loop or the autonomous loop, is inside it.       *)
C8_AdvanceSerialized ==
    Cardinality({t \in DOMAIN threads : InAdvance(threads[t])}) <= 1

\* the defaults the restore block names
C11_Default ==
    [amplitude_fast |-> AmpScale \div 2, amplitude_medium |-> AmpScale \div 2,
     amplitude_slow |-> AmpScale \div 2, wisdom |-> (3 * PersScale) \div 10,
     empathy |-> (3 * PersScale) \div 10, curiosity |-> PersScale \div 2,
     creativity |-> (3 * PersScale) \div 10]

(* C11: a brain constructed from a record whose consciousness_state lacks    *)
(* some amplitude or personality fields holds the default in each missing    *)
(* field (amplitudes 0.5; wisdom 0.3, empathy 0.3, curiosity 0.5,            *)
(* creativity 0.3) and the stored value in each field that is present.       *)
C11_MissingFieldsDefault ==
    call.op = "none" /\ "consciousness_state" \in disk.present =>
        \A k \in StateFields :
            consciousness[k] = IF k \in disk.consciousness_state.present
                               THEN disk.consciousness_state.val[k]
                               ELSE C11_Default[k]

\* C11 witness: the brain built from the record that holds only
\* amplitude_fast = 0.8 and wisdom = 0.45
C11_Witness ==
    /\ call.op = "none"
    /\ disk.present = {"consciousness_state"}
    /\ disk.consciousness_state.present = {"amplitude_fast", "wisdom"}
    /\ consciousness.amplitude_fast = 8000
    /\ consciousness.amplitude_medium = 5000
    /\ consciousness.wisdom = 9000000
    /\ consciousness.curiosity = 10000000

-----------------------------------------------------------------------------
(* Construction from any content of the memory file.  A JSON value is kept  *)
(* by its type; a number stored in a field is StoredValue of that field, a  *)
(* string is one int() rejects.  The engine record keeps numbers, and        *)
(* brain.attr_type the Python type of each restored attribute (the engine   *)
(* record holds 0 where the attribute is not a number).                     *)

JsonTypes == {"object", "array", "number", "string", "null"}

\* the number a well-formed field holds: amplitudes 0.8, personality 0.45
StoredValue ==
    [k \in StateFields |->
        IF k \in {"amplitude_fast", "amplitude_medium", "amplitude_slow"}
        THEN Times(AmpScale, 8, 10) ELSE Times(PersScale, 45, 100)]

\* a memory file: whether json.load accepts it, the type of its top-level
\* value, the keys of a top-level object, the type of consciousness_state and
\* of each of its fields ("absent": no such key), the type of interaction_count
File(parses, top, keys, state, fields, count) ==
    [parses |-> parses, top |-> top, keys |-> keys, state |-> state,
     fields |-> fields, count |-> count]

AllFields(type) == [k \in StateFields |-> type]

RawFiles ==
    { File(FALSE, "null", {}, "null", AllFields("absent"), "null") }
    \cup { File(TRUE, top, {}, "null", AllFields("absent"), "null") :
             top \in JsonTypes }
    \cup { File(TRUE, "object", {"consciousness_state"}, state, AllFields("absent"), "null") :
             state \in {"array", "null", "object"} }
    \cup { File(TRUE, "object", {"consciousness_state"}, "object", fields, "null") :
             fields \in { AllFields("number"),
                          [AllFields("number") EXCEPT !.amplitude_fast = "string"],
                          [AllFields("number") EXCEPT !.amplitude_slow = "null"],
                          [AllFields("absent") EXCEPT !.wisdom = "null"],
                          [AllFields("number") EXCEPT !.creativity = "string"],
                          [AllFields("absent") EXCEPT !.empathy = "string",
                                                      !.amplitude_medium = "number"] } }
    \cup { File(TRUE, "object", {"interaction_count"}, "null", AllFields("absent"), count) :
             count \in {"number", "string", "null"} }

\* _load_memory: the type of self.memory ({} when json.load raises)
LoadedType(file) == IF file.parses THEN file.top ELSE "object"
LoadedKeys(file) == IF file.parses /\ file.top = "object" THEN file.keys ELSE {}

\* TrueArdyBrain.__init__ / ArdyTrueAI.__init__ on the file: the exception
\* that leaves the constructor ("" when none), statement by statement
InitError(file) ==
    LET type == LoadedType(file)
    IN \* 'consciousness_state' in self.memory
       IF type \in {"number", "null"} THEN "TypeError"
       \* state.get('amplitude_fast', 0.5)
       ELSE IF "consciousness_state" \in LoadedKeys(file) /\ file.state # "object"
       THEN "AttributeError"
       \* self.memory.get('knowledge', {})
       ELSE IF type # "object" THEN "AttributeError"
       \* int(self.memory.get('interaction_count', 0))
       ELSE IF "interaction_count" \in LoadedKeys(file) /\ file.count = "string"
       THEN "ValueError"
       ELSE IF "interaction_count" \in LoadedKeys(file) /\ file.count # "number"
       THEN "TypeError"
       ELSE ""

\* the record _load_memory returns, as far as its values are numbers
LoadedMemory(file) ==
    LET restored == IF "consciousness_state" \in LoadedKeys(file)
                    THEN {k \in StateFields : file.fields[k] # "absent"} ELSE {}
    IN [Memory(LoadedKeys(file), NoState, 7) EXCEPT
           !.consciousness_state =
               Dict(restored, [k \in StateFields |->
                                   IF file.fields[k] = "number" THEN StoredValue[k] ELSE 0])]

\* the Python type of each engine attribute after the restore block
AttrType(file) ==
    [k \in StateFields |->
        IF "consciousness_state" \in LoadedKeys(file) /\ file.fields[k] # "absent"
        THEN file.fields[k] ELSE "number"]

Amplitudes == {"amplitude_fast", "amplitude_medium", "amplitude_slow"}

GrowOrder == <<"wisdom", "empathy", "curiosity", "creativity">>

\* update_harmonics up to the amplitude statement that raises TypeError: the
\* statements before it have assigned their (not yet normalized) amplitudes
PartialAmplitudesA(c, e, types) ==
    LET fast == Times(c.amplitude_fast, 7, 10) + Times(e, 3, 10)
        medium == Times(c.amplitude_medium, 9, 10) + Times(fast, 1, 10)
    IN IF types.amplitude_fast # "number" THEN c
       ELSE IF types.amplitude_medium # "number" THEN [c EXCEPT !.amplitude_fast = fast]
       ELSE [c EXCEPT !.amplitude_fast = fast, !.amplitude_medium = medium]

\* _grow_personality up to the statement that raises TypeError
PartialGrow(c, types) ==
    LET grown == GrowPersonality(c)
        first == CHOOSE i \in 1..4 :
                    /\ types[GrowOrder[i]] # "number"
                    /\ \A j \in 1..(i - 1) : types[GrowOrder[j]] = "number"
        done == {GrowOrder[j] : j \in 1..(first - 1)}
    IN [k \in DOMAIN c |-> IF k \in done THEN grown[k] ELSE c[k]]

\* update_harmonics / update_consciousness on an engine whose restored
\* attributes have the types given: whether TypeError leaves the call, and
\* the engine it leaves behind
TypedAdvance(v, c, types, e, noise) ==
    IF \E k \in Amplitudes : types[k] # "number"
    THEN [raised |-> TRUE,
          c |-> IF v = "A" THEN PartialAmplitudesA(c, e, types) ELSE c]
    ELSE LET pre == IF v = "A"
                    THEN UpdateEmotionA(UpdatePhases(UpdateAmplitudesA(c, e)))
                    ELSE UpdateAwareness(UpdateEmotionB(UpdateTime(
                             UpdatePhases(UpdateAmplitudesB(c, e, noise)))))
         IN IF \E k \in StateFields : types[k] # "number"
            THEN [raised |-> TRUE, c |-> PartialGrow(pre, types)]
            ELSE [raised |-> FALSE, c |-> GrowPersonality(pre)]

\* before the brain is constructed: the file is on disk, no object exists
InitLoad ==
    /\ variant \in {"A", "B"}
    /\ disk \in RawFiles
    /\ consciousness = <<>>
    /\ brain = <<>>
    /\ turn = 0
    /\ input = 0
    /\ draws = NoNoise
    /\ call = NoCall
    /\ threads = <<>>
    /\ gui = <<>>

\* TrueArdyBrain() / ArdyTrueAI(): _load_memory, the restore block, the rest
\* of __init__
Construct ==
    /\ call.op = "none"
    /\ LET error == InitError(disk)
       IN /\ call' = [op |-> "__init__", raised |-> error # "", error |-> error]
          /\ IF error = ""
             THEN /\ consciousness' = NewConsciousness(variant, LoadedMemory(disk))
                  /\ brain' = [attr_type |-> AttrType(disk),
                               interaction_count |->
                                   MemGet(LoadedMemory(disk), "interaction_count", 0)]
             ELSE UNCHANGED <<consciousness, brain>>
    /\ UNCHANGED <<variant, turn, input, draws, disk, threads, gui>>

\* the first advance of the constructed engine
FirstAdvance ==
    /\ call.op = "__init__" /\ ~call.raised
    /\ \E e \in Energies : \E n \in NoiseDraws :
         LET r == TypedAdvance(variant, consciousness, brain.attr_type, e,
                               IF variant = "A" THEN NoNoise ELSE n)
         IN /\ consciousness' = r.c
            /\ call' = [op |-> "advance", raised |-> r.raised,
                        error |-> IF r.raised THEN "TypeError" ELSE ""]
            /\ input' = e
            /\ draws' = IF variant = "A" THEN NoNoise ELSE n
            /\ turn' = turn + 1
    /\ UNCHANGED <<variant, brain, disk, threads, gui>>

NextLoad == Construct \/ FirstAdvance

SpecLoad == InitLoad /\ [][NextLoad]_vars

(* C12: whatever the memory file holds, the constructor returns, every      *)
(* malformed field of consciousness_state is initialised to its default,    *)
(* and the next advance completes.                                          *)
C12_MalformedTolerated ==
    /\ call.op \in {"__init__", "advance"} => ~call.raised
    /\ call.op = "__init__" /\ ~call.raised /\ "consciousness_state" \in LoadedKeys(disk) =>
           \A k \in StateFields :
               disk.fields[k] \in {"string", "null"} =>
                   /\ brain.attr_type[k] = "number"
                   /\ consciousness[k] = C11_Default[k]

-----------------------------------------------------------------------------
(* think() while the memory file cannot be written: every open(file, 'w')   *)
(* of _save_memory raises OSError.                                          *)

FailedWriteA == ThinkCallOnA(ReadOnly(World(brain, consciousness, disk)))

FailedWriteB == ThinkCallOnB(ReadOnly(World(brain, consciousness, disk)))

NextDisk == FailedWriteA \/ FailedWriteB

SpecDisk == InitThink /\ [][NextDisk]_vars

(* C13: a think() call during which the record cannot be written still      *)
(* returns its normal response; no exception of the save leaves think().    *)
C13_WriteFailureTolerated ==
    call.op = "think" => call.returned /\ Truthy(call.response)

-----------------------------------------------------------------------------
\* the two phase differences that _update_emotion and get_coherence of
\* variant A and the phase_variance of both _grow_personality add up
PhaseDiffTerms(c) ==
    <<Abs(c.phase_fast - c.phase_medium), Abs(c.phase_medium - c.phase_slow)>>

(* C14: every phase difference a consumer of the engine state uses is the   *)
(* shortest-arc distance between the two phases, a value in [0, pi], never  *)
(* the raw absolute difference.                                             *)
C14_ShortestArcUsed ==
    \A k \in 1..2 :
        /\ PhaseDiffTerms(consciousness)[k] = ShortestArc(PhaseDiffTerms(consciousness)[k])
        /\ PhaseDiffTerms(consciousness)[k] \in 0..Pi

-----------------------------------------------------------------------------
(* The read-only methods of the engine, called between advances.  Each is   *)
(* modelled by the engine it leaves and the value it returns.               *)

MaxReadTurns == 1
MaxReads == 2

\* the amplitudes are in [0, 1], the range ResonanceA and ResonanceB cover
Normalized(c) == \A k \in Amplitudes : c[k] \in 0..AmpScale

\* get_resonance(): no assignment; of a restored engine whose amplitudes are
\* out of range only the Python type of the value is kept
get_resonance(v, c) ==
    [c |-> c,
     result |-> IF Normalized(c)
                THEN [resonance |-> IF v = "A" THEN ResonanceA(c) ELSE ResonanceB(c)]
                ELSE [resonance_type |-> IF v = "A" THEN ResonanceType(c) ELSE "float"]]

\* mutant of get_coherence: the call also re-labels the emotion
get_coherence_Relabel(v, c) ==
    [c |-> IF v = "A" THEN UpdateEmotionA(c) ELSE UpdateEmotionB(c),
     result |-> [coherence |-> IF v = "A" THEN CoherenceA(c) ELSE CoherenceB(c)]]

\* get_coherence(): no assignment
get_coherence(v, c) ==
    [c |-> c, result |-> [coherence |-> IF v = "A" THEN CoherenceA(c) ELSE CoherenceB(c)]]

\* QuantumHarmonicConsciousness.get_state_vector(): a new dict of new lists
\* (energies and frequencies are h * k * n and k * n, with h = k = 1.0)
get_state_vector(c) ==
    [c |-> get_coherence("A", get_resonance("A", c).c).c,
     result |-> [amplitudes |-> <<c.amplitude_fast, c.amplitude_medium, c.amplitude_slow>>,
                 phases |-> <<c.phase_fast, c.phase_medium, c.phase_slow>>,
                 energies |-> <<c.f_fast, c.f_medium, c.f_slow>>,
                 frequencies |-> <<c.f_fast, c.f_medium, c.f_slow>>,
                 resonance |-> get_resonance("A", c).result,
                 coherence |-> get_coherence("A", get_resonance("A", c).c).result.coherence,
                 emotion |-> c.emotion]]

\* AdvancedHarmonicConsciousness.get_state(): a new dict of new lists and dicts
get_state(c) ==
    [c |-> get_coherence("B", get_resonance("B", c).c).c,
     result |-> [amplitudes |-> <<c.amplitude_fast, c.amplitude_medium, c.amplitude_slow>>,
                 phases |-> <<c.phase_fast, c.phase_medium, c.phase_slow>>,
                 resonance |-> get_resonance("B", c).result,
                 coherence |-> get_coherence("B", get_resonance("B", c).c).result.coherence,
                 emotion |-> c.emotion,
                 awareness |-> <<c.quantum_awareness, c.neural_awareness, c.social_awareness>>,
                 personality |-> <<c.wisdom, c.empathy, c.curiosity, c.creativity>>]]

InitRead ==
    /\ variant \in {"A", "B"}
    /\ \E memory \in MemoryFiles :
         /\ consciousness = NewConsciousness(variant, memory)
         /\ brain = NewBrain(memory)
         /\ disk = memory
    /\ turn = 0
    /\ input = 0
    /\ draws = NoNoise
    /\ call = [op |-> "none", reads |-> 0, result |-> <<>>]
    /\ threads = <<>>
    /\ gui = <<>>

\* the state after a read-only call that gave r
Read(op, r) ==
    /\ call.reads < MaxReads
    /\ consciousness' = r.c
    /\ call' = [op |-> op, reads |-> call.reads + 1, result |-> r.result]
    /\ UNCHANGED <<variant, turn, input, draws, brain, disk, threads, gui>>

ReadResonance == Read("get_resonance", get_resonance(variant, consciousness))

ReadCoherence == Read("get_coherence", get_coherence(variant, consciousness))

ReadStateVector == variant = "A" /\ Read("get_state_vector", get_state_vector(consciousness))

ReadState == variant = "B" /\ Read("get_state", get_state(consciousness))

\* an advance between the reads
ReadAdvance ==
    /\ turn < MaxReadTurns
    /\ \E e \in Energies : \E n \in (IF variant = "A" THEN {NoNoise} ELSE NoiseDraws) :
         /\ consciousness' = IF variant = "A" THEN update_harmonics(consciousness, e)
                             ELSE update_consciousness(consciousness, e, n)
         /\ input' = e
         /\ draws' = n
    /\ turn' = turn + 1
    /\ call' = [call EXCEPT !.op = "advance", !.result = <<>>]
    /\ UNCHANGED <<variant, brain, disk, threads, gui>>

\* self._save_memory(), as the shell calls it outside think
ReadSave ==
    /\ call.op # "_save_memory"
    /\ disk' = Save(variant, World(brain, consciousness, disk)).d
    /\ call' = [call EXCEPT !.op = "_save_memory", !.result = <<>>]
    /\ UNCHANGED <<variant, consciousness, turn, input, draws, brain, threads, gui>>

NextRead ==
    \/ ReadResonance \/ ReadCoherence \/ ReadStateVector \/ ReadState
    \/ ReadAdvance \/ ReadSave

SpecRead == InitRead /\ [][NextRead]_vars

(* C15: a call of get_resonance, get_coherence, get_state_vector or         *)
(* get_state leaves every field of the engine as it was, in any state and   *)
(* however many calls came before.                                          *)
C15_GettersPure ==
    [][call'.reads # call.reads => consciousness' = consciousness]_vars

\* a second read-only call in a row, on an engine that has advanced
C15_Witness ==
    /\ turn = 1
    /\ call.reads = 2
    /\ call.op \in {"get_state_vector", "get_state"}

\* the quantum numbers and the frequencies of the engine
QuantumNumbers(c) == <<c.n_fast, c.n_medium, c.n_slow>>
Frequencies(c) == <<c.f_fast, c.f_medium, c.f_slow>>

(* C16: the quantum numbers stay (1, 2, 3) and the frequencies k * n stay   *)
(* (1, 2, 3) through restore, advance, the derived metrics and save.        *)
C16_QuantumNumbersFixed ==
    /\ QuantumNumbers(consciousness) = <<1, 2, 3>>
    /\ Frequencies(consciousness) = <<1, 2, 3>>

\* an engine restored from a record, advanced, read and then saved
C16_Witness ==
    /\ turn = 1
    /\ call.reads >= 1
    /\ call.op = "_save_memory"
    /\ disk.consciousness_state.present = StateFields
    /\ disk.consciousness_state.val.amplitude_fast = consciousness.amplitude_fast
    /\ QuantumNumbers(consciousness) = <<1, 2, 3>>

-----------------------------------------------------------------------------
(* Every place where the shells advance the engine: think (with the         *)
(* search_web it may call), observe_screen, and a round of the autonomous   *)
(* loop.  call.energies lists the input energies the call passed.           *)

MaxShellCalls == 1

\* what the tests of think see of a message: which of these it contains
EnergyMessages == SUBSET {"good", "?", "bad", "how are you", "tla"}

\* TrueArdyBrain.observe_screen(): grab is what ImageGrab.grab() does; any
\* exception, of the grab or of the save, is caught and False returned
\* (screen_observations are not part of the modelled record)
observe_screen(w, grab) ==
    IF grab = "image"
    THEN LET saved == Save("A", Harmonics([w EXCEPT !.b.screens_watched = @ + 1],
                                          ObserveEnergy))
         IN [saved EXCEPT !.raised = FALSE]
    ELSE w

\* one round of ArdyTrueAI._autonomous_loop after its sleep, the draws of an
\* update_consciousness being n
AutonomousRound(w, activity, n) ==
    Save("B", IF activity \in DOMAIN ActivityEnergies
              THEN [w EXCEPT !.c = update_consciousness(w.c, ActivityEnergies[activity], n),
                             !.advances = @ + 1,
                             !.energies = Append(@, ActivityEnergies[activity])]
              ELSE w)

\* the state after a call of the shell that left the world w
Called(op, w) ==
    /\ turn < MaxShellCalls
    /\ consciousness' = w.c
    /\ brain' = w.b
    /\ disk' = w.d
    /\ turn' = turn + 1
    /\ input' = IF w.energies = <<>> THEN input ELSE w.energies[Len(w.energies)]
    /\ call' = [op |-> op, energies |-> w.energies]
    /\ UNCHANGED <<variant, threads, gui>>

ShellThinkA ==
    /\ variant = "A"
    /\ \E msg \in EnergyMessages : \E web \in WebReplies : \E chk \in {"200", "timeout"} :
         /\ Called("think", ThinkA(World(brain, consciousness, disk), msg, web, chk,
                                   NotPosted, 1).w)
         /\ draws' = draws

ShellThinkB ==
    /\ variant = "B"
    /\ \E msg \in EnergyMessages : \E n \in NoiseDraws :
         /\ Called("think", ThinkB(World(brain, consciousness, disk), msg, n).w)
         /\ draws' = n

ShellObserve ==
    /\ variant = "A"
    /\ \E grab \in {"image", "error"} :
         Called("observe_screen", observe_screen(World(brain, consciousness, disk), grab))
    /\ draws' = draws

ShellAutonomous ==
    /\ variant = "B"
    /\ \E activity \in Activities : \E n \in NoiseDraws :
         /\ Called("_autonomous_loop",
                   AutonomousRound(World(brain, consciousness, disk), activity, n))
         /\ draws' = IF activity \in DOMAIN ActivityEnergies THEN n ELSE draws

NextEnergy == ShellThinkA \/ ShellThinkB \/ ShellObserve \/ ShellAutonomous

SpecEnergy == InitThink /\ [][NextEnergy]_vars

(* C17: every input energy a shell passes to an advance lies in [0, 1], and *)
(* the one think() derives from the message is 0.1, 0.3, 0.5 or 0.7.        *)
C17_EnergiesInRange ==
    call.op # "none" =>
        /\ \A k \in 1..Len(call.energies) : call.energies[k] \in 0..AmpScale
        /\ call.op = "think" =>
               /\ Len(call.energies) >= 1
               /\ call.energies[1] \in {Times(AmpScale, 1, 10), Times(AmpScale, 3, 10),
                                        Times(AmpScale, 5, 10), Times(AmpScale, 7, 10)}

\* a think() whose question was searched and answered: two advances
C17_Witness ==
    /\ call.op = "think"
    /\ call.energies = <<Times(AmpScale, 5, 10), Times(AmpScale, 3, 10)>>
    /\ input = Times(AmpScale, 3, 10)

-----------------------------------------------------------------------------
(* think() in a brain that starts from the record of a long session.        *)

\* a record whose pattern list holds n entries
LongRecord(n) ==
    [Memory({"conversation_patterns", "interaction_count"}, NoState, n)
        EXCEPT !.conversation_patterns = [k \in 1..n |-> Pattern({"hello"}, "float")]]

\* the lists _save_memory can have written: up to the cap of the variant
LongRecords(v) ==
    LET cap == IF v = "A" THEN PatternCap ELSE HistoryCap
    IN {LongRecord(cap - 1), LongRecord(cap)}

InitPatterns ==
    /\ variant \in {"A", "B"}
    /\ \E memory \in LongRecords(variant) :
         /\ consciousness = NewConsciousness(variant, memory)
         /\ brain = NewBrain(memory)
         /\ disk = memory
    /\ turn = 0
    /\ input = 0
    /\ draws = NoNoise
    /\ call = NoCall
    /\ threads = <<>>
    /\ gui = <<>>

SpecPatterns == InitPatterns /\ [][NextThink]_vars

(* C18: after any number of think() calls the in-memory list of             *)
(* conversation patterns and the persisted one hold at most 200 entries,    *)
(* the persisted ones being the most recent in-memory ones, in order.       *)
C18_PatternsBounded ==
    variant = "A" =>
        /\ Len(brain.conversation_patterns) <= PatternCap
        /\ Len(disk.conversation_patterns) <= PatternCap
        /\ call.op = "think" /\ call.returned =>
               disk.conversation_patterns = LastN(brain.conversation_patterns, PatternCap)

-----------------------------------------------------------------------------
(* NetworkMonitor of network_monitor_android.py.  brain is the monitor      *)
(* (history, current_network: <<>> for None), disk the log file, turn the   *)
(* clock that stamps the entries.                                           *)

MaxEvents == 2
LogCap == 1000

\* what NetworkInfo.get_network_info() can report (hostname left out)
Networks == { [ip |-> "192.168.0.2", internet |-> TRUE],
              \* get_local_ip sends nothing: an address without internet
              [ip |-> "192.168.0.2", internet |-> FALSE],
              [ip |-> "10.0.0.7", internet |-> TRUE],
              [ip |-> "Not connected", internet |-> FALSE] }

\* the outcome of _save_history's open and json.dump
WriteOutcomes == {"ok", "open_fails", "dump_fails"}

\* details is the list of phrases the text is made of
Event(stamp, event_type, details, info) ==
    [timestamp |-> stamp, type |-> event_type, details |-> details, network_info |-> info]

\* _save_history(): the last 1000 entries, or an exception that is caught
\* (before the file is touched, or after open(file, 'w') has emptied it)
_save_history(m, d, write) ==
    IF write = "ok" THEN [valid |-> TRUE, entries |-> LastN(m.history, LogCap)]
    ELSE IF write = "open_fails" THEN d
    ELSE [valid |-> FALSE, entries |-> <<>>]

\* mutant of log_event: the entry is kept only when the file was written
log_event_IfSaved(m, d, stamp, event_type, details, info, write) ==
    LET entry == Event(stamp, event_type, details, info)
        m1 == [m EXCEPT !.history = Append(@, entry)]
    IN [m |-> IF write = "ok" THEN m1 ELSE m, d |-> _save_history(m1, d, write),
        result |-> entry]

\* log_event(event_type, details)
log_event(m, d, stamp, event_type, details, info, write) ==
    LET entry == Event(stamp, event_type, details, info)
        m1 == [m EXCEPT !.history = Append(@, entry)]
    IN [m |-> m1, d |-> _save_history(m1, d, write), result |-> entry]

IsNetworkChange(e) == e.type = "NETWORK_CHANGE"

\* 'connection lost' in e.get('details', '').lower()
MentionsLoss(e) == \E k \in DOMAIN e.details : e.details[k] = "Internet connection lost"

\* get_statistics(): timestamps are <<>> for None
get_statistics(m) ==
    IF m.history = <<>>
    THEN [total_events |-> 0, network_changes |-> 0, connection_losses |-> 0,
          first_event |-> <<>>, last_event |-> <<>>]
    ELSE [total_events |-> Len(m.history),
          \* sum(1 for e in self.history if ...)
          network_changes |->
              Cardinality({k \in 1..Len(m.history) : IsNetworkChange(m.history[k])}),
          connection_losses |->
              Cardinality({k \in 1..Len(m.history) : MentionsLoss(m.history[k])}),
          first_event |-> <<m.history[1].timestamp>>,
          last_event |-> <<m.history[Len(m.history)].timestamp>>]

\* mutant of Changes: only the address is compared
Changes_IpOnly(old, current) ==
    IF current.ip # old.ip THEN <<"IP changed">> ELSE <<>>

\* the changes list of check_network_change
Changes(old, current) ==
    (IF current.ip # old.ip THEN <<"IP changed">> ELSE <<>>)
    \o (IF current.internet # old.internet
        THEN IF current.internet THEN <<"Internet connection restored">>
             ELSE <<"Internet connection lost">>
        ELSE <<>>)

\* check_network_change(): current is what it probes, info what log_event probes
check_network_change(m, d, stamp, current, info, write) ==
    IF m.current_network = <<>>
    THEN log_event([m EXCEPT !.current_network = <<current>>], d, stamp,
                   "STARTED", <<"Monitoring started">>, info, write)
    ELSE LET changes == Changes(m.current_network[1], current)
             logged == log_event(m, d, stamp, "NETWORK_CHANGE", changes, info, write)
         IN IF changes # <<>>
            THEN [logged EXCEPT !.m.current_network = <<current>>]
            ELSE [m |-> [m EXCEPT !.current_network = <<current>>], d |-> d,
                  result |-> <<>>]

\* NetworkMonitor(): _load_history reads the file, [] where json.load raises
NetworkMonitor(d) ==
    [history |-> IF d.valid THEN d.entries ELSE <<>>, current_network |-> <<>>]

NoLog == [valid |-> TRUE, entries |-> <<>>]

InitMonitor ==
    /\ variant = "NetworkMonitor"
    /\ consciousness = <<>>
    /\ brain = NetworkMonitor(NoLog)
    /\ disk = NoLog
    /\ turn = 0
    /\ input = 0
    /\ draws = NoNoise
    /\ call = [op |-> "NetworkMonitor"]
    /\ threads = <<>>
    /\ gui = <<>>

\* the state after a call with the arguments args that gave r
Logged(op, args, r, write) ==
    /\ brain' = r.m
    /\ disk' = r.d
    /\ turn' = turn + 1
    /\ call' = [op |-> op, args |-> args, result |-> r.result, write |-> write]
    /\ UNCHANGED <<variant, consciousness, input, draws, threads, gui>>

\* monitor.log_event(type, details), as the test and the GUI call it
LogEvent ==
    /\ turn < MaxEvents
    /\ \E ev \in { <<"TEST", <<"Performance test">> >>,
                   <<"NETWORK_CHANGE", <<"Internet connection lost">> >> } :
         \E info \in Networks : \E write \in WriteOutcomes :
           Logged("log_event", ev,
                  log_event(brain, disk, turn, ev[1], ev[2], info, write), write)

\* monitor.check_network_change(), a round of the monitoring loop; call.args
\* holds what the call observed
CheckNetworkChange ==
    /\ turn < MaxEvents
    /\ \E current \in Networks : \E write \in WriteOutcomes :
         Logged("check_network_change", <<current>>,
                check_network_change(brain, disk, turn, current, current, write), write)

\* monitor.get_statistics()
GetStatistics ==
    /\ call.op # "get_statistics"
    /\ call' = [op |-> "get_statistics", args |-> <<>>, result |-> get_statistics(brain),
                write |-> "none"]
    /\ UNCHANGED <<variant, consciousness, brain, disk, turn, input, draws, threads, gui>>

\* the application is started again: a new monitor reads the log file
Restart ==
    /\ call.op # "NetworkMonitor"
    /\ brain' = NetworkMonitor(disk)
    /\ call' = [op |-> "NetworkMonitor"]
    /\ UNCHANGED <<variant, consciousness, disk, turn, input, draws, threads, gui>>

NextMonitor == LogEvent \/ CheckNetworkChange \/ GetStatistics \/ Restart

SpecMonitor == InitMonitor /\ [][NextMonitor]_vars

(* C19: log_event appends exactly one entry, with the given type and        *)
(* details, to the end of history and returns it; get_statistics() then     *)
(* reports total_events = len(history), one more than before, whether or    *)
(* not the log file could be written.                                       *)
C19_LogEventAppends ==
    [][call'.op = "log_event" /\ turn' # turn =>
          /\ brain'.history = Append(brain.history, call'.result)
          /\ call'.result.type = call'.args[1]
          /\ call'.result.details = call'.args[2]
          /\ get_statistics(brain').total_events = Len(brain'.history)
          /\ get_statistics(brain').total_events
                 = get_statistics(brain).total_events + 1]_vars

\* a second event logged while the file could not be written
C19_Witness ==
    /\ call.op = "log_event"
    /\ call.write = "dump_fails"
    /\ ~disk.valid
    /\ Len(brain.history) = 2
    /\ brain.history[2] = call.result
    /\ get_statistics(brain).total_events = 2

-----------------------------------------------------------------------------
(* C20: update_consciousness computes the three derivatives from the        *)
(* amplitudes it was called with, and each new amplitude is                 *)
(* clamp01(old + 0.1 * derivative), whatever the noise draws and the input. *)
C20_RuleB ==
    [][variant = "B" /\ turn' = turn + 1 =>
          LET d == Derivatives(consciousness, input', draws')
          IN /\ consciousness'.amplitude_fast
                    = Clamp01(consciousness.amplitude_fast + Times(d[1], 1, 10))
             /\ consciousness'.amplitude_medium
                    = Clamp01(consciousness.amplitude_medium + Times(d[2], 1, 10))
             /\ consciousness'.amplitude_slow
                    = Clamp01(consciousness.amplitude_slow + Times(d[3], 1, 10))]_vars

\* a second call of Rule B with draws of both signs that leaves all three
\* amplitudes strictly inside the range
C20_Witness ==
    /\ variant = "B"
    /\ turn = 2
    /\ draws = <<NoiseMax, -NoiseMax, 0>>
    /\ \A k \in Amplitudes : consciousness[k] \in 1..(AmpScale - 1)

-----------------------------------------------------------------------------
-----------------------------------------------------------------------------
(* GitHubAPI of github_uploader_android.py.  The server is the environment: *)
(* every request draws its reply from Replies.  A Python value is a record  *)
(* of its type and, for a dict, its keys.                                   *)

MaxUploads == 2

\* what requests.request can do: a status code with the kind of body GitHub
\* sends with it (a contents GET answers a file path with an object holding
\* 'sha' and a directory path with an array), or one of the exceptions
Replies ==
    {"200 file", "200 object", "200 empty", "200 array", "201 commit",
     "404", "401", "422", "500", "Timeout", "ConnectionError", "RequestException"}

JsonObject(keys) == [type |-> "dict", keys |-> keys]
JsonArray == [type |-> "list", keys |-> {}]

\* response.json() of a 200/201 reply
Json(reply) ==
    CASE reply = "200 file" -> JsonObject({"sha", "content"})
      [] reply = "200 array" -> JsonArray
      [] reply = "201 commit" -> JsonObject({"content", "commit"})
      [] OTHER -> JsonObject({})

\* GitHubAPI._make_request: the requests sent so far with this one added, and
\* the value returned
_make_request(api, sent, method, body, reply) ==
    IF ~api.requests
    THEN [sent |-> sent, value |-> JsonObject({"error"})]
    ELSE [sent |-> Append(sent, [method |-> method, body |-> body]),
          value |-> IF reply \in {"200 file", "200 object", "200 array", "201 commit"}
                    THEN Json(reply)
                    ELSE IF reply = "200 empty"
                    THEN JsonObject({})
                    ELSE JsonObject({"error"})]

\* GitHubAPI.get_file
get_file(api, sent, reply) ==
    IF ~api.configured
    THEN [sent |-> sent, value |-> JsonObject({"error"})]
    ELSE _make_request(api, sent, "GET", {}, reply)

Returned(r) == [sent |-> r.sent, result |-> r.value, raised |-> FALSE]
AttributeError(sent) == [sent |-> sent, result |-> [type |-> "AttributeError", keys |-> {}],
                         raised |-> TRUE]

\* GitHubAPI.create_or_update_file; `'error' not in existing` is a membership
\* test on whatever get_file returned, existing.get is a dict method
create_or_update_file(api, get, put) ==
    IF ~api.configured
    THEN Returned([sent |-> <<>>, value |-> JsonObject({"error"})])
    ELSE LET existing == get_file(api, <<>>, get)
         IN IF "error" \in existing.value.keys
            THEN Returned(_make_request(api, existing.sent, "PUT",
                                        {"message", "content", "branch"}, put))
            ELSE IF existing.value.type # "dict"
            THEN AttributeError(existing.sent)
            ELSE IF "sha" \in existing.value.keys
            THEN Returned(_make_request(api, existing.sent, "PUT",
                                        {"message", "content", "branch", "sha"}, put))
            ELSE Returned(_make_request(api, existing.sent, "PUT",
                                        {"message", "content", "branch"}, put))

\* GitHubAPI.delete_file
delete_file(api, get, del) ==
    IF ~api.configured
    THEN Returned([sent |-> <<>>, value |-> JsonObject({"error"})])
    ELSE LET existing == get_file(api, <<>>, get)
         IN IF "error" \in existing.value.keys
            THEN Returned(existing)
            ELSE IF existing.value.type # "dict"
            THEN AttributeError(existing.sent)
            ELSE IF "sha" \notin existing.value.keys
            THEN Returned([sent |-> existing.sent, value |-> JsonObject({"error"})])
            ELSE Returned(_make_request(api, existing.sent, "DELETE",
                                        {"message", "sha", "branch"}, del))

\* GitHubAPI(): owner and repo come from the config file or stay None; the
\* requests module is installed or not
InitGitHub ==
    /\ variant = "GitHubAPI"
    /\ consciousness = <<>>
    /\ \E configured \in BOOLEAN, installed \in BOOLEAN :
         brain = [configured |-> configured, requests |-> installed]
    /\ disk = <<>>
    /\ turn = 0
    /\ input = 0
    /\ draws = NoNoise
    /\ call = [op |-> "GitHubAPI"]
    /\ threads = <<>>
    /\ gui = <<>>

Uploaded(op, args, r) ==
    /\ turn' = turn + 1
    /\ call' = [op |-> op, args |-> args, sent |-> r.sent, result |-> r.result,
                raised |-> r.raised]
    /\ UNCHANGED <<variant, consciousness, brain, disk, input, draws, threads, gui>>

\* api.create_or_update_file(path, content, message); call.args holds the
\* replies to the GET and to the PUT
CreateOrUpdateFile ==
    /\ turn < MaxUploads
    /\ \E get \in Replies, put \in Replies :
         Uploaded("create_or_update_file", <<get, put>>,
                  create_or_update_file(brain, get, put))

\* api.delete_file(path, message)
DeleteFile ==
    /\ turn < MaxUploads
    /\ \E get \in Replies, del \in Replies :
         Uploaded("delete_file", <<get, del>>, delete_file(brain, get, del))

\* GitHubUploaderGUI._update_api_config: owner and repo from the entry fields
UpdateApiConfig ==
    /\ \E configured \in BOOLEAN :
         /\ configured # brain.configured
         /\ brain' = [brain EXCEPT !.configured = configured]
    /\ call' = [op |-> "_update_api_config"]
    /\ UNCHANGED <<variant, consciousness, disk, turn, input, draws, threads, gui>>

NextGitHub == CreateOrUpdateFile \/ DeleteFile \/ UpdateApiConfig

SpecGitHub == InitGitHub /\ [][NextGitHub]_vars

Methods(sent) == [i \in 1..Len(sent) |-> sent[i].method]

\* C22: create_or_update_file always sends the GET before the PUT and the PUT
\* body carries 'sha' exactly when the GET succeeded and returned a sha;
\* delete_file sends no DELETE when the GET returned an error or no sha; and
\* for every reply of the server both operations return a dict that holds
\* either the result or an 'error' key.
C22_GetThenWrite ==
    /\ call.op = "create_or_update_file" /\ call.sent # <<>> =>
         /\ Methods(call.sent) \in {<<"GET">>, <<"GET", "PUT">>}
         /\ Len(call.sent) = 2 =>
              ("sha" \in call.sent[2].body <=> call.args[1] = "200 file")
    /\ call.op = "delete_file" /\ call.sent # <<>> =>
         /\ Methods(call.sent) \in {<<"GET">>, <<"GET", "DELETE">>}
         /\ Len(call.sent) = 2 => call.args[1] = "200 file"
    /\ call.op \in {"create_or_update_file", "delete_file"} =>
         ~call.raised /\ call.result.type = "dict"

\* the two orderings alone, without the last sentence of C22
C22_Ordering ==
    /\ call.op = "create_or_update_file" /\ call.sent # <<>> =>
         /\ Methods(call.sent) \in {<<"GET">>, <<"GET", "PUT">>}
         /\ Len(call.sent) = 2 =>
              ("sha" \in call.sent[2].body <=> call.args[1] = "200 file")
    /\ call.op = "delete_file" /\ call.sent # <<>> =>
         /\ Methods(call.sent) \in {<<"GET">>, <<"GET", "DELETE">>}
         /\ Len(call.sent) = 2 => call.args[1] = "200 file"

(* C23: each think() call advances the harmonic state exactly once, on every *)
(* response path: learned-answer cache, successful web search, backend and   *)
(* canned response.                                                          *)
C23_OneAdvancePerThink ==
    call.op = "think" /\ call.returned => call.advances = 1

\* every path of C23 but the successful web search
C23_OtherPaths ==
    call.op = "think" /\ call.returned /\ call.path # "searched" => call.advances = 1

-----------------------------------------------------------------------------
(* think() on the threads that TrueArdyGUI.send starts, statement by         *)
(* statement where two threads touch the same attribute or the same file:    *)
(* `self.interaction_count += 1` is a read and a write, and _save_memory     *)
(* stores the record in self.memory, hands self.memory to json.dump under    *)
(* open(file, 'w'), and the buffered text reaches the file when it is closed.*)
(* Nothing in the class holds a lock, so the threads interleave at each of   *)
(* these points.                                                             *)

\* a thread running process(msg): the count it read, the record it is dumping
Thinker(msg) == [kind |-> "think", pc |-> "load", msg |-> msg, loaded |-> 0,
                 record |-> EmptyMemory]

InitCount ==
    /\ variant = "A"
    /\ consciousness = NewConsciousness("A", EmptyMemory)
    /\ brain = NewBrain(EmptyMemory) @@ [memory |-> EmptyMemory]
    /\ disk = EmptyMemory
    /\ turn = 0
    /\ input = 0
    /\ draws = NoNoise
    /\ call = NoCall
    /\ threads = <<>>
    /\ gui = [watching |-> FALSE]

\* TrueArdyGUI.send: threading.Thread(target=self.process, args=(msg,)).start()
Spawn ==
    /\ Len(threads) < MaxSends
    /\ \E msg \in ThreadMessages : threads' = Append(threads, Thinker(msg))
    /\ UNCHANGED <<engine, brain, disk, call, gui>>

\* self.interaction_count += 1, the read of the attribute
LoadCount(t) ==
    /\ threads[t].pc = "load"
    /\ threads' = [threads EXCEPT ![t].loaded = brain.interaction_count, ![t].pc = "store"]
    /\ UNCHANGED <<engine, brain, disk, call, gui>>

\* self.interaction_count += 1, the write of the attribute, and think from
\* there to the canned response (search service and backend unreachable),
\* then _save_memory's self.memory = {...}
StoreCount(t) ==
    LET th == threads[t]
        w0 == ThinkPrologue(World(brain, consciousness, disk), th.msg)
        w1 == Harmonics([w0 EXCEPT !.b.interaction_count = th.loaded + 1],
                        InputEnergy(th.msg))
        b2 == [w1.b EXCEPT !.conversation_context = Append(@, "Me")]
    IN /\ th.pc = "store"
       /\ brain' = [b2 EXCEPT !.memory = SavedMemory("A", b2, w1.c)]
       /\ consciousness' = w1.c
       /\ turn' = turn + 1
       /\ input' = InputEnergy(th.msg)
       /\ threads' = [threads EXCEPT ![t].pc = "open"]
       /\ UNCHANGED <<variant, draws, disk, call, gui>>

\* with open(self.memory_file, 'w') as f: json.dump(self.memory, f, indent=2),
\* up to the end of the dump: the file is empty, the text is in f's buffer
OpenFile(t) ==
    /\ threads[t].pc = "open"
    /\ disk' = EmptyMemory
    /\ threads' = [threads EXCEPT ![t].record = brain.memory, ![t].pc = "close"]
    /\ UNCHANGED <<engine, brain, call, gui>>

\* the end of the with block: f is flushed and closed, think returns
CloseFile(t) ==
    /\ threads[t].pc = "close"
    /\ disk' = threads[t].record
    /\ threads' = [threads EXCEPT ![t].pc = "done"]
    /\ UNCHANGED <<engine, brain, call, gui>>

LoadCounts == \E t \in DOMAIN threads : LoadCount(t)
StoreCounts == \E t \in DOMAIN threads : StoreCount(t)
OpenFiles == \E t \in DOMAIN threads : OpenFile(t)
CloseFiles == \E t \in DOMAIN threads : CloseFile(t)

NextCount == Spawn \/ LoadCounts \/ StoreCounts \/ OpenFiles \/ CloseFiles

SpecCount == InitCount /\ [][NextCount]_vars

\* every think() call started so far has returned
AllReturned == \A t \in DOMAIN threads : threads[t].pc = "done"

(* C24: after N think() calls have completed on one brain, concurrent calls  *)
(* on the threads of send() included, interaction_count has increased by     *)
(* exactly N and the last persisted record carries that same count.          *)
C24_CountMatchesCalls ==
    AllReturned =>
        /\ brain.interaction_count = Len(threads)
        /\ disk.interaction_count = brain.interaction_count

\* the first half of C24 alone
C24_CountIncreased == AllReturned => brain.interaction_count = Len(threads)

\* the second half of C24 alone
C24_CountPersisted == AllReturned => disk.interaction_count = brain.interaction_count

-----------------------------------------------------------------------------
(* The WATCH / STOP button of TrueArdyGUI and the watch_loop threads it      *)
(* starts.  gui.toggles counts the presses, rounds the screens a loop took.   *)

MaxToggles == 4
MaxScreens == 2

\* a thread running watch_loop: at the while test, or in time.sleep(30)
Watcher == [kind |-> "watch", pc |-> "test", rounds |-> 0]

InitWatch ==
    /\ variant = "A"
    /\ consciousness = NewConsciousness("A", EmptyMemory)
    /\ brain = NewBrain(EmptyMemory)
    /\ disk = EmptyMemory
    /\ turn = 0
    /\ input = 0
    /\ draws = NoNoise
    /\ call = NoCall
    /\ threads = <<>>
    /\ gui = [watching |-> FALSE, toggles |-> 0]

\* TrueArdyGUI.toggle_watch: STOP clears the flag; WATCH sets it and starts a
\* thread, whatever became of the thread started before
ToggleWatch ==
    /\ gui.toggles < MaxToggles
    /\ gui' = [watching |-> ~gui.watching, toggles |-> gui.toggles + 1]
    /\ threads' = IF gui.watching THEN threads ELSE Append(threads, Watcher)
    /\ UNCHANGED <<engine, brain, disk, call>>

\* watch_loop: `while self.watching:` and, the flag being set, observe_screen
\* up to the call of time.sleep(30)
WatchTest(t) ==
    LET th == threads[t]
    IN /\ th.pc = "test"
       /\ IF ~gui.watching
          THEN /\ threads' = [threads EXCEPT ![t].pc = "done"]
               /\ UNCHANGED <<engine, brain, disk, call>>
          ELSE /\ th.rounds < MaxScreens
               /\ \E grab \in {"image", "error"} :
                    LET w == observe_screen(World(brain, consciousness, disk), grab)
                    IN /\ brain' = w.b
                       /\ consciousness' = w.c
                       /\ disk' = w.d
                       /\ turn' = turn + w.advances
                       /\ input' = IF w.advances > 0 THEN ObserveEnergy ELSE input
                       /\ call' = [op |-> "observe_screen", thread |-> t]
               /\ threads' = [threads EXCEPT ![t].pc = "sleep", ![t].rounds = @ + 1]
               /\ UNCHANGED <<variant, draws>>
       /\ UNCHANGED gui

\* time.sleep(30) returns
WatchWake(t) ==
    /\ threads[t].pc = "sleep"
    /\ threads' = [threads EXCEPT ![t].pc = "test"]
    /\ UNCHANGED <<engine, brain, disk, call, gui>>

WatchTests == \E t \in DOMAIN threads : WatchTest(t)
WatchWakes == \E t \in DOMAIN threads : WatchWake(t)

NextWatch == ToggleWatch \/ WatchTests \/ WatchWakes

SpecWatch == InitWatch /\ [][NextWatch]_vars

\* the watch_loop threads that have not returned
AliveLoops == {t \in DOMAIN threads : threads[t].pc # "done"}

(* C25: across any sequence of WATCH / STOP toggles at most one watch_loop   *)
(* thread is alive at any time: a loop started by WATCH ends once STOP       *)
(* clears the flag, and a later WATCH never leaves two loops calling         *)
(* observe_screen side by side.                                              *)
C25_OneWatchLoop == Cardinality(AliveLoops) <= 1

\* the second half of C25 alone: no two loops have both called observe_screen
\* since the last press of the button
C25_NoTwoObservers ==
    ~ \E s, t \in DOMAIN threads :
        /\ s < t /\ gui.watching
        /\ threads[t].rounds > 0 /\ threads[s].pc = "sleep"
        /\ call = [op |-> "observe_screen", thread |-> s]

-----------------------------------------------------------------------------
(* A long conversation with variant A: think calls one after the other on    *)
(* one brain, counted by interaction_count.                                  *)

MaxConversation == 7

ConversationMessages == { {"hello"}, {"sad"} }

\* brain.think(msg), the search not asked for, the backend answering or not
Converse ==
    /\ variant = "A"
    /\ brain.interaction_count < MaxConversation
    /\ \E msg \in ConversationMessages : \E chk \in {"200", "timeout"} :
         \E post \in (IF chk = "200" THEN PostReplies ELSE {NotPosted}) :
           \E i \in 1..Len(Templates(msg)) :
             /\ Thought(ThinkA(World(brain, consciousness, disk), msg, "not_asked",
                               chk, post, i), msg, chk, post)
             /\ draws' = draws

NextConversation == Converse

\* TrueArdyBrain() where no memory file exists
InitConversation ==
    /\ variant = "A"
    /\ consciousness = NewConsciousness("A", EmptyMemory)
    /\ brain = NewBrain(EmptyMemory)
    /\ disk = EmptyMemory
    /\ turn = 0
    /\ input = 0
    /\ draws = NoNoise
    /\ call = NoCall
    /\ threads = <<>>
    /\ gui = <<>>

SpecConversation == InitConversation /\ [][NextConversation]_vars

\* conversation_context right after think has appended the user's message
\* (and dropped the oldest entry when there were more than ten)
ContextAfterAppend(w, msg) == ThinkPrologue(w, msg).b.conversation_context

(* C26: after any sequence of think() calls conversation_context holds at    *)
(* most 10 entries right after the user's message is appended and at most 11 *)
(* when think() returns; it does not grow with the number of turns.          *)
C26_ContextBounded ==
    [][call'.op = "think" /\ brain'.interaction_count # brain.interaction_count =>
          /\ Len(ContextAfterAppend(World(brain, consciousness, disk), call'.msg))
                 <= ContextCap
          /\ call'.returned => Len(brain'.conversation_context) <= ContextCap + 1]_vars

\* C26 for the first six calls on a new brain only
C26_FirstCalls ==
    [][call'.op = "think" /\ brain'.interaction_count # brain.interaction_count
          /\ brain'.interaction_count <= 6 =>
          /\ Len(ContextAfterAppend(World(brain, consciousness, disk), call'.msg))
                 <= ContextCap
          /\ call'.returned => Len(brain'.conversation_context) <= ContextCap + 1]_vars

\* every phase lies in [0, 2 pi)
PhasesWrapped(c) ==
    \A p \in {c.phase_fast, c.phase_medium, c.phase_slow} : 0 <= p /\ p < TwoPi

(* C27: in every state reached from a default-seeded engine by advance calls *)
(* get_coherence returns a value in [0,1] in both variants; variant A's      *)
(* formula 1 - (|d1| + |d2|) / (4 pi) never goes negative because all phases *)
(* stay in [0, 2 pi).                                                        *)
C27_CoherenceInRange ==
    LET coherence == get_coherence(variant, consciousness).result.coherence
    IN /\ 0 <= coherence /\ coherence <= AmpScale
       /\ variant = "A" => /\ PhasesWrapped(consciousness)
                           /\ PhaseDiffSum(consciousness) < 2 * TwoPi
                           /\ CoherenceA(consciousness) > 0

\* C27 witness: variant A after phase_slow has wrapped, the two differences
\* adding up to 2 pi (coherence one half)
C27_Witness ==
    /\ variant = "A" /\ turn = 21
    /\ consciousness.phase_slow < consciousness.phase_fast
    /\ get_coherence("A", consciousness).result.coherence < Times(AmpScale, 51, 100)

\* the label the variant's _update_emotion assigns to the state c
RuleLabel(v, c) == IF v = "A" THEN UpdateEmotionA(c).emotion ELSE UpdateEmotionB(c).emotion

(* C28: where the cached emotion label can be read before any advance has    *)
(* run, right after construction with the default seeds and right after      *)
(* restoring amplitudes from a persisted record, the cached label equals the *)
(* label the variant's classification rule assigns to the current            *)
(* amplitudes and phases.                                                    *)
C28_LabelCurrent ==
    turn = 0 => consciousness.emotion = RuleLabel(variant, consciousness)

\* C28 after the first advance: the label is the rule's
C28_LabelAfterAdvance ==
    turn > 0 => consciousness.emotion = RuleLabel(variant, consciousness)

-----------------------------------------------------------------------------
(* The program is closed after a think call and started again: the new brain *)
(* is built from what the call left in the memory file.                      *)

\* TrueArdyBrain() / ArdyTrueAI() on the memory file as it is; call keeps the
\* engine and the brain of the session before, and whether its think returned
\* (its last statement before the return being the save)
Reconstruct ==
    /\ call.op = "think"
    /\ consciousness' = NewConsciousness(variant, disk)
    /\ brain' = NewBrain(disk)
    /\ call' = [op |-> "construct", saved |-> call.returned,
                before |-> [c |-> consciousness, b |-> brain]]
    /\ UNCHANGED <<variant, turn, input, draws, disk, threads, gui>>

NextRestart == ThinkCallA \/ ThinkCallB \/ Reconstruct

SpecRestart == InitThink /\ [][NextRestart]_vars

\* the part of the state that _save_memory writes
Persisted(c, b) ==
    <<c.amplitude_fast, c.amplitude_medium, c.amplitude_slow,
      c.wisdom, c.empathy, c.curiosity, c.creativity, b.interaction_count>>

(* C29: saving and then constructing a new brain from the saved record is a  *)
(* round trip on the persisted part of the state: the three amplitudes, the  *)
(* four personality scalars and interaction_count of the new brain equal     *)
(* those at the time of the save, while the phases restart at 0 and the      *)
(* emotion label at 'harmony'.                                               *)
C29_RoundTrip ==
    call.op = "construct" /\ call.saved =>
        /\ Persisted(consciousness, brain) = Persisted(call.before.c, call.before.b)
        /\ consciousness.phase_fast = 0
        /\ consciousness.phase_medium = 0
        /\ consciousness.phase_slow = 0
        /\ consciousness.emotion = "harmony"

\* C29 witness: a new brain built from the record of a session that ended with
\* three interactions, phases off 0 and another label than 'harmony'
C29_Witness ==
    /\ call.op = "construct" /\ call.saved
    /\ brain.interaction_count = 3
    /\ consciousness.amplitude_medium # Times(AmpScale, 5, 10)
    /\ call.before.c.phase_fast # 0
    /\ call.before.c.emotion # "harmony"
    /\ consciousness.emotion = "harmony"

\* 0.0 <= x <= 1.0
InUnitF(x) == ~FLess(x, Zero) /\ ~FLess(Literal(1, 1), x)

(* C30: under Rule A, when the input energy and the three amplitudes are in  *)
(* [0,1] before the call, the clamp never alters a value: each amplitude     *)
(* before the clamp is a convex combination of values in [0,1] and lies in   *)
(* [0,1] already.                                                            *)
C30_ClampIdle ==
    [][/\ turn' = 1
       /\ InUnitF(input)
       /\ \A a \in {consciousness.amplitude_fast, consciousness.amplitude_medium,
                    consciousness.amplitude_slow} : InUnitF(a)
       => LET blend == BlendF(consciousness, input)
          IN /\ InUnitF(blend.fast) /\ InUnitF(blend.medium) /\ InUnitF(blend.slow)
             /\ consciousness'.amplitude_fast = blend.fast
             /\ consciousness'.amplitude_medium = blend.medium
             /\ consciousness'.amplitude_slow = blend.slow]_vars

\* C30 witness: the corner, all amplitudes and the input 1.0, after the call:
\* 0.7 + 0.3, 0.9 + 0.1 and 0.95 + 0.05 of the rounded literals each give 1.0
C30_Witness ==
    /\ turn = 1
    /\ input = Literal(1, 1)
    /\ consciousness.amplitude_fast = Literal(1, 1)
    /\ consciousness.amplitude_medium = Literal(1, 1)
    /\ consciousness.amplitude_slow = Literal(1, 1)

====
